---- MODULE Spec2Model ----
(***************************************************************************)
(* A model of the PostgreSQL database manager's server: the storage layer  *)
(* (DatabaseStorage) together with the REST endpoints that call it.        *)
(*                                                                         *)
(* Every action is one HTTP request handled to completion: the endpoint,   *)
(* the storage method it calls and every statement that method issues.     *)
(* The record `last` holds the most recent request and its response.       *)
(***************************************************************************)
EXTENDS Integers, Sequences, FiniteSets, TLC

\* ------------------------------------------------------------------ bounds
\* serial ids handed out by db_connections
MaxConns == 2

\* ids handed out by the serial column of the target table
MaxRowId == 2

\* entries of the activity log
MaxLogs == 2

\* serial ids handed out by db_tables
MaxTables == 1

\* serial ids handed out by db_columns
MaxColumns == 1

\* fetchTableData's defaults: page = 1, pageSize = 10
DefaultPage == 1
DefaultPageSize == 10

\* getActivityLogs' default: limit = 10
DefaultLimit == 10

VARIABLES
    dbConnections,  \* rows of db_connections: [id, name, database, isActive]
    connSeq,        \* last value of the db_connections id sequence
    dbTables,       \* rows of db_tables: [id, connectionId, name]
    tableSeq,       \* last value of the db_tables id sequence
    dbColumns,      \* rows of db_columns: [id, tableId, name]
    columnSeq,      \* last value of the db_columns id sequence
    appSettings,    \* rows of app_settings: [id, key, value]
    settingSeq,     \* last value of the app_settings id sequence
    lastSet,        \* history: per key, the value of the last set that succeeded
    targetDb,       \* the database `db` runs statements on: [rows, seq] of its table
    activityLogs,   \* rows of activity_logs, in the order they were created
    last,           \* the most recent request and its response
    activateCalls,  \* activate requests being handled side by side: [id, pc, status]
    setCalls,       \* set requests being handled side by side: [key, value, pc, found, status]
    queryCalls,     \* storage requests being handled side by side, by statement
    secretsFile,    \* secrets.json in the working directory: <<content>>, or <<>>
    migrationsDir,  \* names of the files of the migrations directory
    migrationSql,   \* per file, how its SQL behaves when it is executed
    migrationRows,  \* names of the rows of the migrations table, by id
    executed,       \* history: per file, how often its SQL has been executed
    migrationCalls, \* runs of runMigrations being handled: [pc, todo, ...]
    uiConnection,   \* table-manager page: <<id>> of the connection it renders for
    sidebarTables,  \* Sidebar: the table names its list shows
    sidebarSelected, \* Sidebar's selectedTable: <<name>> or <<>>
    pageSelected,   \* TableManagerPage's selectedTable: <<name>> or <<>>
    managerSelected, \* TableManager's selectedTable: <<name>> or <<>>
    managerQueries  \* the queries of useTableManager that are enabled

registryVars == <<dbConnections, connSeq>>
metaVars == <<dbTables, tableSeq, dbColumns, columnSeq>>
settingVars == <<appSettings, settingSeq, lastSet>>
rowVars == <<targetDb, activityLogs>>
callVars == <<activateCalls, setCalls, queryCalls>>
fileVars == <<secretsFile>>
migrationVars == <<migrationsDir, migrationSql, migrationRows, executed, migrationCalls>>
pageVars == <<uiConnection, sidebarTables, sidebarSelected, pageSelected,
              managerSelected, managerQueries>>
restVars == <<fileVars, migrationVars, pageVars>>
vars == <<registryVars, metaVars, settingVars, rowVars, last, callVars, restVars>>

\* The response of a request that has not happened yet.
NoRequest == [op |-> "none", status |-> 0]

\* ------------------------------------------------------- Connection Registry
\* isActive is a nullable boolean column; every predicate the code applies to
\* it is "is_active = true", so the model keeps NULL and false as FALSE.
ConnNames == {"n1", "n2"}

\* The database of the pool that `db` is built on at start-up, from the
\* secrets file or the environment (loadDatabaseConfig), and the databases a
\* registered connection may name.
PoolDatabase == "manager"
ConnDatabases == {PoolDatabase, "sales"}
ConnIds == 1..MaxConns

\* Request bodies of POST /api/connections.  insertConnectionSchema omits id,
\* createdAt and updatedAt only: isActive is part of the accepted body.
\* A body with valid = FALSE lacks a required field and fails the parse.
ConnBodies ==
    [valid : {TRUE}, name : ConnNames, database : ConnDatabases,
     isActive : {"absent", "true", "false"}]
        \cup {[valid |-> FALSE, name |-> "n1", database |-> PoolDatabase,
                isActive |-> "absent"]}

\* Request bodies of PUT /api/connections/:id, passed to the storage unparsed.
ConnPatches ==
    [name : ConnNames \cup {"absent"}, isActive : {"absent", "true", "false"}]

\* getConnections' WHERE id = :id
ConnById(conns, id) == {c \in conns : c.id = id}

\* INSERT INTO db_connections ... RETURNING *: is_active defaults to false.
createConnection(id, body) ==
    [id |-> id, name |-> body.name, database |-> body.database,
     isActive |-> IF body.isActive = "absent" THEN FALSE
                  ELSE body.isActive = "true"]

\* UPDATE db_connections SET ...connection, updatedAt WHERE id = :id
updateConnection(conns, id, patch) ==
    {IF c.id # id THEN c
     ELSE [c EXCEPT !.name = IF patch.name = "absent" THEN @ ELSE patch.name,
                    !.isActive = IF patch.isActive = "absent" THEN @
                                 ELSE patch.isActive = "true"] : c \in conns}

\* DELETE FROM db_connections WHERE id = :id
deleteConnection(conns, id) == {c \in conns : c.id # id}

\* (mutant) the first statement changes no row
DeactivateAll_None(conns) == conns

\* activateConnection's first statement:
\* UPDATE db_connections SET is_active = false WHERE is_active = true
DeactivateAll(conns) == {[c EXCEPT !.isActive = FALSE] : c \in conns}

\* activateConnection's second statement:
\* UPDATE db_connections SET is_active = true, updated_at WHERE id = :id
ActivateOne(conns, id) ==
    {IF c.id = id THEN [c EXCEPT !.isActive = TRUE] ELSE c : c \in conns}

\* (mutant) the deactivation of the other connections is left out
activateConnection_NoDeactivate(conns, id) == ActivateOne(conns, id)

activateConnection(conns, id) == ActivateOne(DeactivateAll(conns), id)

\* getActiveConnection: SELECT ... WHERE is_active = true; the caller takes the
\* first row of the result, in whatever order the database returns the rows.
ActiveConnections(conns) == {c \in conns : c.isActive}

CreateConnectionReq(body) ==
    /\ connSeq < MaxConns
    /\ IF ~body.valid
       THEN /\ last' = [op |-> "createConnection", status |-> 400]
            /\ UNCHANGED <<dbConnections, connSeq>>
       ELSE LET row == createConnection(connSeq + 1, body)
            IN /\ dbConnections' = dbConnections \cup {row}
               /\ connSeq' = connSeq + 1
               /\ last' = [op |-> "createConnection", status |-> 201,
                           body |-> row]

UpdateConnectionReq(id, patch) ==
    /\ dbConnections' = updateConnection(dbConnections, id, patch)
    /\ last' = IF ConnById(dbConnections, id) = {}
               THEN [op |-> "updateConnection", id |-> id, status |-> 404]
               ELSE [op |-> "updateConnection", id |-> id, status |-> 200,
                     body |-> CHOOSE c \in ConnById(dbConnections', id) : TRUE]
    /\ UNCHANGED connSeq

\* db_tables.connection_id references db_connections(id) ON DELETE CASCADE:
\* the tables of a deleted connection go with it.
CascadeTables(tables, conns) ==
    {t \in tables : \E c \in conns : c.id = t.connectionId}

\* (mutant) the columns of a deleted table stay
CascadeColumns_None(columns, tables) == columns

\* db_columns.table_id references db_tables(id) ON DELETE CASCADE
CascadeColumns(columns, tables) ==
    {c \in columns : \E t \in tables : t.id = c.tableId}

\* activity_logs.connection_id references db_connections(id) ON DELETE CASCADE
CascadeLogs(logs, conns) ==
    SelectSeq(logs, LAMBDA e : \E c \in conns : c.id = e.connectionId)

\* DELETE /api/connections/:id, with what the database deletes along with
\* the connection's row; `cascaded` counts those rows (the response does not
\* carry it).
DeleteConnectionReq(id) ==
    /\ dbConnections' = deleteConnection(dbConnections, id)
    /\ dbTables' = CascadeTables(dbTables, dbConnections')
    /\ dbColumns' = CascadeColumns(dbColumns, dbTables')
    /\ activityLogs' = CascadeLogs(activityLogs, dbConnections')
    /\ last' = [op |-> "deleteConnection", id |-> id,
                status |-> IF ConnById(dbConnections, id) = {} THEN 404 ELSE 200,
                cascaded |-> [tables |-> Cardinality(dbTables \ dbTables'),
                              columns |-> Cardinality(dbColumns \ dbColumns'),
                              logs |-> Len(activityLogs) - Len(activityLogs')]]
    /\ UNCHANGED <<connSeq, tableSeq, columnSeq>>

ActivateConnectionReq(id) ==
    /\ dbConnections' = activateConnection(dbConnections, id)
    /\ last' = IF ConnById(dbConnections, id) = {}
               THEN [op |-> "activateConnection", id |-> id, status |-> 404]
               ELSE [op |-> "activateConnection", id |-> id, status |-> 200,
                     body |-> CHOOSE c \in ConnById(dbConnections', id) : TRUE]
    /\ UNCHANGED connSeq

GetActiveConnectionReq ==
    /\ IF ActiveConnections(dbConnections) = {}
       THEN last' = [op |-> "getActiveConnection", status |-> 404]
       ELSE \E c \in ActiveConnections(dbConnections) :
                last' = [op |-> "getActiveConnection", status |-> 200, body |-> c]
    /\ UNCHANGED <<dbConnections, connSeq>>

\* Requests that are handled side by side.  Each await of a handler is a
\* point where the handler of another request may run, so a storage method
\* that issues two statements is two steps.
CallIds == {"a", "b"}
IdleCall == [pc |-> "idle"]
NoCalls ==
    /\ activateCalls = [call \in CallIds |-> IdleCall]
    /\ setCalls = [call \in CallIds |-> IdleCall]
    /\ queryCalls = [call \in CallIds |-> IdleCall]

\* What the server finds outside its tables when it starts.
NoSecrets == <<>>

\* The files a migrations directory may hold, in the order Array.sort() puts
\* their names, and how the SQL of a file behaves: "bad" SQL fails, "once"
\* fails when it is executed again (CREATE TABLE), "repeatable" succeeds
\* whenever it is executed (INSERT).
SortedNames == <<"001_init.sql", "002_orders.sql", "notes.txt">>
SqlKinds == {"bad", "once", "repeatable"}
NoRuns ==
    /\ migrationCalls = [call \in CallIds |-> IdleCall]
    /\ executed = [i \in 1..Len(SortedNames) |-> 0]

\* The table-manager page before it is opened.
PageNotMounted ==
    /\ uiConnection = <<>>
    /\ sidebarTables = <<>>
    /\ sidebarSelected = <<>>
    /\ pageSelected = <<>>
    /\ managerSelected = <<>>
    /\ managerQueries = {}

RestInitial ==
    /\ secretsFile = NoSecrets
    /\ migrationsDir = {}
    /\ migrationSql = [i \in 1..Len(SortedNames) |-> "repeatable"]
    /\ migrationRows = <<>>
    /\ NoRuns
    /\ PageNotMounted

\* POST /api/connections/:id/activate arrives.
ActivateStart(call, id) ==
    /\ activateCalls[call].pc = "idle"
    /\ activateCalls' = [activateCalls EXCEPT ![call] = [pc |-> "start", id |-> id]]
    /\ UNCHANGED <<dbConnections, connSeq>>

\* activateConnection's first statement has run.
ActivateDeactivate(call) ==
    /\ activateCalls[call].pc = "start"
    /\ dbConnections' = DeactivateAll(dbConnections)
    /\ activateCalls' = [activateCalls EXCEPT ![call].pc = "between"]
    /\ UNCHANGED connSeq

\* activateConnection's second statement has run, and the endpoint answers.
ActivateFinish(call) ==
    /\ activateCalls[call].pc = "between"
    /\ dbConnections' = ActivateOne(dbConnections, activateCalls[call].id)
    /\ activateCalls' =
         [activateCalls EXCEPT ![call] =
            [pc |-> "done", id |-> @.id,
             status |-> IF ConnById(dbConnections, @.id) = {} THEN 404 ELSE 200]]
    /\ UNCHANGED connSeq

\* -------------------------------------------------------------- setup wizard
\* (mutant) a connection test that fails answers 502
TestConnectionStatus_BadGateway(isConnected) == IF isConnected THEN 200 ELSE 502

\* POST /api/setup/test-connection answers 200 when testConnection returns
\* true, and 400 when it returns false: it returns false for every error of
\* the attempt to connect.
TestConnectionStatus(isConnected) == IF isConnected THEN 200 ELSE 400

\* POST /api/setup/test-connection; whether the database of the body can be
\* reached is the environment's choice.
TestConnectionReq(isConnected) ==
    last' = [op |-> "testConnection", status |-> TestConnectionStatus(isConnected)]

\* saveToSecretsFile(config): writes the body's fields to secrets.json, the
\* body as the request carried it; an error of the write is caught, and the
\* result (false) is not looked at by the caller.
saveToSecretsFile(file, body, writable) ==
    IF writable THEN <<[database |-> body.database]>> ELSE file

\* POST /api/setup/save-connection: the secrets file first, then the parse of
\* the body, the new row, and its activation.
SaveConnectionReq(body, storeSecurely, setActive, writable) ==
    /\ connSeq < MaxConns
    /\ secretsFile' = IF storeSecurely
                      THEN saveToSecretsFile(secretsFile, body, writable)
                      ELSE secretsFile
    /\ IF ~body.valid
       THEN /\ last' = [op |-> "saveConnection", status |-> 400]
            /\ UNCHANGED <<dbConnections, connSeq>>
       ELSE LET row == createConnection(connSeq + 1, body)
                created == dbConnections \cup {row}
            IN /\ dbConnections' = IF setActive
                                   THEN activateConnection(created, row.id)
                                   ELSE created
               /\ connSeq' = connSeq + 1
               /\ last' = [op |-> "saveConnection", status |-> 200, body |-> row]

\* --------------------------------------------------------------- migrations
\* A file of the directory is the index of its name in SortedNames.
FileIds == 1..Len(SortedNames)

\* file.endsWith('.sql')
EndsWithSql(file) == SortedNames[file] \in {"001_init.sql", "002_orders.sql"}

\* The files of a set as the sequence that .sort() makes of their names.
RECURSIVE Sorted(_)
Sorted(files) ==
    IF files = {} THEN <<>>
    ELSE LET least == CHOOSE f \in files : \A g \in files : f <= g
         IN <<least>> \o Sorted(files \ {least})

\* The same files, last name first.
RECURSIVE Reversed(_)
Reversed(files) ==
    IF files = {} THEN <<>>
    ELSE LET greatest == CHOOSE f \in files : \A g \in files : g <= f
         IN <<greatest>> \o Reversed(files \ {greatest})

\* (mutant) the files are taken last name first
getAvailableMigrations_Reversed(dir) == Reversed({f \in dir : EndsWithSql(f)})

\* getAvailableMigrations: readdirSync(...).filter(endsWith('.sql')).sort()
getAvailableMigrations(dir) == Sorted({f \in dir : EndsWithSql(f)})

\* getAppliedMigrations: SELECT name FROM migrations WHERE applied = TRUE
\* ORDER BY id ASC; no statement of the program sets applied to false.
getAppliedMigrations(rows) == rows

Names(rows) == {rows[i] : i \in 1..Len(rows)}

\* POST /api/migrations/run arrives.
RunStart(call) ==
    /\ migrationCalls[call].pc = "idle"
    /\ migrationCalls' = [migrationCalls EXCEPT ![call] = [pc |-> "list"]]
    /\ UNCHANGED <<migrationsDir, migrationSql, migrationRows, executed>>

\* runMigrations up to its loop: the applied names, the available files, and
\* the pending ones; with none pending the run is over.  seen and listed keep
\* what the run found.
RunList(call) ==
    LET applied == getAppliedMigrations(migrationRows)
        available == getAvailableMigrations(migrationsDir)
        pending == SelectSeq(available, LAMBDA m : m \notin Names(applied))
    IN /\ migrationCalls[call].pc = "list"
       /\ migrationCalls' = [migrationCalls EXCEPT ![call] =
            [pc |-> IF pending = <<>> THEN "done" ELSE "apply",
             seen |-> Names(applied), dir |-> migrationsDir,
             listed |-> pending, todo |-> pending,
             ran |-> <<>>, recorded |-> <<>>,
             status |-> IF pending = <<>> THEN 200 ELSE 0]]
       /\ UNCHANGED <<migrationsDir, migrationSql, migrationRows, executed>>

\* applyMigration's `await executeRawQuery(sql)` has settled for the first
\* pending file: pool.query ran the file's SQL.  An error ends the run.
RunExecute(call) ==
    LET c == migrationCalls[call]
        m == Head(c.todo)
        fails == \/ migrationSql[m] = "bad"
                 \/ migrationSql[m] = "once" /\ executed[m] > 0
    IN /\ c.pc = "apply"
       /\ executed' = IF fails THEN executed ELSE [executed EXCEPT ![m] = @ + 1]
       /\ migrationCalls' = [migrationCalls EXCEPT ![call] =
            IF fails THEN [c EXCEPT !.pc = "done", !.status = 500]
            ELSE [c EXCEPT !.pc = "record", !.ran = Append(@, m)]]
       /\ UNCHANGED <<migrationsDir, migrationSql, migrationRows>>

\* applyMigration's `await recordMigration(name)` has settled: INSERT INTO
\* migrations (name) VALUES ($1); name is UNIQUE, and an error ends the run.
RunRecord(call) ==
    LET c == migrationCalls[call]
        m == Head(c.todo)
        refused == m \in Names(migrationRows)
        rest == Tail(c.todo)
    IN /\ c.pc = "record"
       /\ migrationRows' = IF refused THEN migrationRows ELSE Append(migrationRows, m)
       /\ migrationCalls' = [migrationCalls EXCEPT ![call] =
            IF refused THEN [c EXCEPT !.pc = "done", !.status = 500]
            ELSE [c EXCEPT !.pc = IF rest = <<>> THEN "done" ELSE "apply",
                           !.todo = rest,
                           !.recorded = Append(@, m),
                           !.status = IF rest = <<>> THEN 200 ELSE 0]]
       /\ UNCHANGED <<migrationsDir, migrationSql, executed>>

\* The server process stops while runs are being handled: a run that has not
\* finished never takes its remaining steps.
RunCrash ==
    /\ \E call \in CallIds : migrationCalls[call].pc \in {"list", "apply", "record"}
    /\ migrationCalls' = [call \in CallIds |->
                            IF migrationCalls[call].pc \in {"apply", "record"}
                            THEN [migrationCalls[call] EXCEPT !.pc = "lost"]
                            ELSE IF migrationCalls[call].pc = "list"
                            THEN [pc |-> "lost"]
                            ELSE migrationCalls[call]]
    /\ UNCHANGED <<migrationsDir, migrationSql, migrationRows, executed>>

\* -------------------------------------------------------- table-manager page
\* useTableManager(connectionId, tableName): the tables query is enabled by
\* !!connectionId, the columns and the data query by
\* !!connectionId && !!tableName.
EnabledQueries(connection, table) ==
    (IF connection # <<>> THEN {"tables"} ELSE {})
        \cup (IF connection # <<>> /\ table # <<>> THEN {"columns", "data"} ELSE {})

\* The selected table of the table manager after the page has rendered with
\* the given selectedTable: <TableManager connectionId={...} /> is given the
\* connection alone, and keeps the state it has.
ManagerTable(selected, own) == own

\* The query of /api/connections/active settles.  With an active connection
\* the page renders Sidebar and TableManager for it; without one it renders a
\* message in their place, and the two are unmounted with their state.
ContextLoad ==
    /\ GetActiveConnectionReq
    /\ IF last'.status = 200
       THEN /\ uiConnection' = <<last'.body.id>>
            /\ managerQueries' = EnabledQueries(uiConnection', managerSelected)
            /\ UNCHANGED <<sidebarTables, sidebarSelected, pageSelected, managerSelected>>
       ELSE /\ uiConnection' = <<>>
            /\ sidebarTables' = <<>>
            /\ sidebarSelected' = <<>>
            /\ managerSelected' = <<>>
            /\ managerQueries' = {}
            /\ UNCHANGED pageSelected

\* The tables query of the Sidebar settles with the names it lists.
SidebarLoadTables(names) ==
    /\ uiConnection # <<>>
    /\ sidebarTables' = names
    /\ UNCHANGED <<uiConnection, sidebarSelected, pageSelected, managerSelected,
                   managerQueries>>

\* The user clicks a table of the Sidebar's list: Sidebar.handleTableSelect,
\* the page's handleTableSelect, and the render that follows.
SidebarSelect(table) ==
    /\ uiConnection # <<>>
    /\ \E i \in 1..Len(sidebarTables) : sidebarTables[i] = table
    /\ sidebarSelected' = <<table>>
    /\ pageSelected' = <<table>>
    /\ managerSelected' = ManagerTable(pageSelected', managerSelected)
    /\ managerQueries' = EnabledQueries(uiConnection, managerSelected')
    /\ UNCHANGED <<uiConnection, sidebarTables>>

\* ------------------------------------------------- table and column metadata
\* Every table is of the schema 'public' (the column's default), so that
\* unique (connection_id, name, schema) is unique (connection_id, name).
MetaTableNames == {"orders"}
MetaColumnNames == {"total"}
TableIds == 1..MaxTables
ColumnIds == 1..MaxColumns

\* Request bodies of POST /api/tables (insertTableSchema); a body with
\* valid = FALSE lacks a required field and fails the parse.
TableBodies ==
    [valid : {TRUE}, connectionId : ConnIds, name : MetaTableNames]
        \cup {[valid |-> FALSE, connectionId |-> 1, name |-> "orders"]}

\* Request bodies of PUT /api/tables/:id, passed to the storage unparsed;
\* 0 and "absent" stand for a field the body does not have.
TablePatches == [connectionId : ConnIds \cup {0}, name : MetaTableNames \cup {"absent"}]

\* Request bodies of POST /api/columns (insertColumnSchema) and PUT
\* /api/columns/:id.
ColumnBodies ==
    [valid : {TRUE}, tableId : TableIds, name : MetaColumnNames]
        \cup {[valid |-> FALSE, tableId |-> 1, name |-> "total"]}
ColumnPatches == [tableId : TableIds \cup {0}, name : MetaColumnNames \cup {"absent"}]

\* The constraints of db_tables: the foreign key to db_connections and
\* unique (connection_id, name, schema).
TablesAccepted(tables, conns) ==
    /\ \A t \in tables : \E c \in conns : c.id = t.connectionId
    /\ \A t, u \in tables :
         (t.connectionId = u.connectionId /\ t.name = u.name) => t.id = u.id

\* The constraints of db_columns: the foreign key to db_tables and
\* unique (table_id, name).
ColumnsAccepted(columns, tables) ==
    /\ \A c \in columns : \E t \in tables : t.id = c.tableId
    /\ \A c, d \in columns :
         (c.tableId = d.tableId /\ c.name = d.name) => c.id = d.id

\* createTable: INSERT INTO db_tables ... RETURNING *
createTable(id, body) ==
    [id |-> id, connectionId |-> body.connectionId, name |-> body.name]

\* updateTable: UPDATE db_tables SET ...table, updatedAt WHERE id = :id
updateTable(tables, id, patch) ==
    {IF t.id # id THEN t
     ELSE [t EXCEPT !.connectionId = IF patch.connectionId = 0 THEN @
                                     ELSE patch.connectionId,
                    !.name = IF patch.name = "absent" THEN @ ELSE patch.name]
        : t \in tables}

\* deleteTable: DELETE FROM db_tables WHERE id = :id
deleteTable(tables, id) == {t \in tables : t.id # id}

\* createColumn, updateColumn, deleteColumn
createColumn(id, body) == [id |-> id, tableId |-> body.tableId, name |-> body.name]

updateColumn(columns, id, patch) ==
    {IF c.id # id THEN c
     ELSE [c EXCEPT !.tableId = IF patch.tableId = 0 THEN @ ELSE patch.tableId,
                    !.name = IF patch.name = "absent" THEN @ ELSE patch.name]
        : c \in columns}

deleteColumn(columns, id) == {c \in columns : c.id # id}

\* POST /api/tables.  The id is taken from the sequence before the database
\* checks the row, so a refused row uses up an id.
CreateTableReq(body) ==
    /\ tableSeq < MaxTables
    /\ UNCHANGED <<dbColumns, columnSeq>>
    /\ IF ~body.valid
       THEN /\ last' = [op |-> "createTable", status |-> 400]
            /\ UNCHANGED <<dbTables, tableSeq>>
       ELSE LET row == createTable(tableSeq + 1, body)
                ok == TablesAccepted(dbTables \cup {row}, dbConnections)
            IN /\ tableSeq' = tableSeq + 1
               /\ dbTables' = IF ok THEN dbTables \cup {row} ELSE dbTables
               /\ last' = IF ok
                          THEN [op |-> "createTable", status |-> 201, body |-> row]
                          ELSE [op |-> "createTable", status |-> 500]

\* PUT /api/tables/:id
UpdateTableReq(id, patch) ==
    LET rows == updateTable(dbTables, id, patch)
        ok == TablesAccepted(rows, dbConnections)
    IN /\ dbTables' = IF ok THEN rows ELSE dbTables
       /\ last' = [op |-> "updateTable", id |-> id,
                   status |-> IF ~ok THEN 500
                              ELSE IF \E t \in dbTables : t.id = id THEN 200
                              ELSE 404]
       /\ UNCHANGED <<tableSeq, dbColumns, columnSeq>>

\* DELETE /api/tables/:id, with the columns the database deletes along with
\* the table's row.
DeleteTableReq(id) ==
    /\ dbTables' = deleteTable(dbTables, id)
    /\ dbColumns' = CascadeColumns(dbColumns, dbTables')
    /\ last' = [op |-> "deleteTable", id |-> id,
                status |-> IF \E t \in dbTables : t.id = id THEN 200 ELSE 404]
    /\ UNCHANGED <<tableSeq, columnSeq>>

\* POST /api/columns
CreateColumnReq(body) ==
    /\ columnSeq < MaxColumns
    /\ UNCHANGED <<dbTables, tableSeq>>
    /\ IF ~body.valid
       THEN /\ last' = [op |-> "createColumn", status |-> 400]
            /\ UNCHANGED <<dbColumns, columnSeq>>
       ELSE LET row == createColumn(columnSeq + 1, body)
                ok == ColumnsAccepted(dbColumns \cup {row}, dbTables)
            IN /\ columnSeq' = columnSeq + 1
               /\ dbColumns' = IF ok THEN dbColumns \cup {row} ELSE dbColumns
               /\ last' = IF ok
                          THEN [op |-> "createColumn", status |-> 201, body |-> row]
                          ELSE [op |-> "createColumn", status |-> 500]

\* PUT /api/columns/:id
UpdateColumnReq(id, patch) ==
    LET rows == updateColumn(dbColumns, id, patch)
        ok == ColumnsAccepted(rows, dbTables)
    IN /\ dbColumns' = IF ok THEN rows ELSE dbColumns
       /\ last' = [op |-> "updateColumn", id |-> id,
                   status |-> IF ~ok THEN 500
                              ELSE IF \E c \in dbColumns : c.id = id THEN 200
                              ELSE 404]
       /\ UNCHANGED <<dbTables, tableSeq, columnSeq>>

\* DELETE /api/columns/:id
DeleteColumnReq(id) ==
    /\ dbColumns' = deleteColumn(dbColumns, id)
    /\ last' = [op |-> "deleteColumn", id |-> id,
                status |-> IF \E c \in dbColumns : c.id = id THEN 200 ELSE 404]
    /\ UNCHANGED <<dbTables, tableSeq, columnSeq>>

\* ------------------------------------------------------------ Settings Store
\* JSON values as the request body carries them (express.json has parsed the
\* text): a tag and the content.  An object is the sequence of its key/value
\* pairs in the order the object enumerates them; its keys are distinct.
JNull == [t |-> "null", v |-> <<>>]
JBool(b) == [t |-> "boolean", v |-> <<b>>]
JNum(n) == [t |-> "number", v |-> <<n>>]
JStr(s) == [t |-> "string", v |-> <<s>>]
JArr(items) == [t |-> "array", v |-> items]
JObj(pairs) == [t |-> "object", v |-> pairs]

JsonValues ==
    {JNull, JBool(TRUE), JNum(1), JStr("a"),
     JArr(<<JNum(2), JNum(1)>>),
     JObj(<<>>),
     JObj(<<<<"b", JNum(1)>>, <<"a", JStr("a")>>>>),
     JObj(<<<<"a", JNum(1)>>, <<"b", JNum(1)>>>>)}

SettingKeys == {"theme", "pageSize"}

\* jsonb's order of object keys (shorter first, then bytewise).
JsonbKeyOrder == <<"a", "b">>

\* The value as the jsonb column keeps it and gives it back: an object's pairs
\* are stored in jsonb's key order, not in the order they were written.
JsonbStore(value) ==
    IF value.t # "object" THEN value
    ELSE LET keys == SelectSeq(JsonbKeyOrder,
                        LAMBDA k : \E i \in 1..Len(value.v) : value.v[i][1] = k)
         IN JObj([i \in 1..Len(keys) |->
                    value.v[CHOOSE j \in 1..Len(value.v) : value.v[j][1] = keys[i]]])

\* The bound parameter drizzle sends for a jsonb column: JSON null is sent as
\* SQL NULL, any other value as its JSON text.
SqlNull == [t |-> "SQL NULL", v |-> <<>>]
mapToDriverValue(value) == IF value.t = "null" THEN SqlNull ELSE value

\* value jsonb NOT NULL
NotNullViolation(param) == param = SqlNull

SettingByKey(settings, key) == {s \in settings : s.key = key}

\* getSetting: SELECT ... FROM app_settings WHERE key = :key
getSetting(settings, key) == SettingByKey(settings, key)

\* (mutant) the update of an existing key refreshes only the timestamp
UpdateSettingValue_KeepsOld(settings, key, param) == settings

\* setSetting's UPDATE app_settings SET value, updated_at WHERE key = :key
UpdateSettingValue(settings, key, param) ==
    {IF s.key = key THEN [s EXCEPT !.value = JsonbStore(param)] ELSE s
        : s \in settings}

\* setSetting's INSERT INTO app_settings (key, value)
InsertSetting(settings, id, key, param) ==
    settings \cup {[id |-> id, key |-> key, value |-> JsonbStore(param)]}

\* setSetting: look the key up, then update the row or insert one.
setSetting(settings, id, key, value) ==
    IF getSetting(settings, key) # {}
    THEN UpdateSettingValue(settings, key, mapToDriverValue(value))
    ELSE InsertSetting(settings, id, key, mapToDriverValue(value))

SetSettingReq(key, value) ==
    IF NotNullViolation(mapToDriverValue(value))
    THEN /\ last' = [op |-> "setSetting", key |-> key, value |-> value,
                     status |-> 500]
         /\ UNCHANGED settingVars
    ELSE /\ appSettings' = setSetting(appSettings, settingSeq + 1, key, value)
         /\ settingSeq' = IF getSetting(appSettings, key) = {}
                          THEN settingSeq + 1 ELSE settingSeq
         /\ lastSet' = [lastSet EXCEPT ![key] = <<value>>]
         /\ last' = [op |-> "setSetting", key |-> key, value |-> value,
                     status |-> 200,
                     body |-> CHOOSE s \in getSetting(appSettings', key) : TRUE]

GetSettingReq(key) ==
    /\ last' = IF getSetting(appSettings, key) = {}
               THEN [op |-> "getSetting", key |-> key, status |-> 404]
               ELSE [op |-> "getSetting", key |-> key, status |-> 200,
                     body |-> CHOOSE s \in getSetting(appSettings, key) : TRUE]
    /\ UNCHANGED settingVars

\* POST /api/settings arrives.
SetStart(call, key, value) ==
    /\ setCalls[call].pc = "idle"
    /\ setCalls' = [setCalls EXCEPT ![call] =
                        [pc |-> "start", key |-> key, value |-> value]]
    /\ UNCHANGED settingVars

\* setSetting's getSetting has answered.
SetLookup(call) ==
    /\ setCalls[call].pc = "start"
    /\ setCalls' = [setCalls EXCEPT ![call] =
                        [pc |-> "found", key |-> @.key, value |-> @.value,
                         found |-> getSetting(appSettings, @.key) # {}]]
    /\ UNCHANGED settingVars

\* setSetting's UPDATE or INSERT has run, and the endpoint answers.  The
\* INSERT of a key that is there by now violates the unique constraint of
\* app_settings.key; the id it took from the sequence is used up.
SetWrite(call) ==
    LET c == setCalls[call]
        param == mapToDriverValue(c.value)
        refused == \/ NotNullViolation(param)
                   \/ ~c.found /\ getSetting(appSettings, c.key) # {}
    IN /\ c.pc = "found"
       /\ appSettings' =
            IF refused THEN appSettings
            ELSE IF c.found THEN UpdateSettingValue(appSettings, c.key, param)
            ELSE InsertSetting(appSettings, settingSeq + 1, c.key, param)
       /\ settingSeq' = IF c.found THEN settingSeq ELSE settingSeq + 1
       /\ lastSet' = IF refused \/ getSetting(appSettings', c.key) = {} THEN lastSet
                     ELSE [lastSet EXCEPT ![c.key] = <<c.value>>]
       /\ setCalls' = [setCalls EXCEPT ![call] =
                        [pc |-> "done", key |-> c.key, value |-> c.value,
                         found |-> c.found,
                         status |-> IF refused THEN 500 ELSE 200]]

\* ------------------------------------------------- SQL text and the database
\* SQL text is a sequence of lexemes: a lexeme is a run of white space or a
\* piece of text without white space.  Lexemes that follow one another with
\* no white-space lexeme between them are adjacent in the text.
IsSpace(lex) == lex \in {" ", "\n"}

\* String.prototype.toUpperCase, on the lexemes the model uses.
toUpperCase(lex) ==
    CASE lex = "select" -> "SELECT"
      [] lex = "insert" -> "INSERT"
      [] lex = "update" -> "UPDATE"
      [] lex = "delete" -> "DELETE"
      [] lex = "from" -> "FROM"
      [] lex = "into" -> "INTO"
      [] lex = "values" -> "VALUES"
      [] lex = "set" -> "SET"
      [] lex = "where" -> "WHERE"
      [] lex = "as" -> "AS"
      [] lex = "information_schema.tables" -> "INFORMATION_SCHEMA.TABLES"
      [] lex = "information_schema.columns" -> "INFORMATION_SCHEMA.COLUMNS"
      [] OTHER -> lex

\* String.prototype.trim: the text without its leading and trailing space.
RECURSIVE trimStart(_)
trimStart(text) ==
    IF text # <<>> /\ IsSpace(Head(text)) THEN trimStart(Tail(text)) ELSE text

RECURSIVE trimEnd(_)
trimEnd(text) ==
    IF text # <<>> /\ IsSpace(text[Len(text)])
    THEN trimEnd(SubSeq(text, 1, Len(text) - 1)) ELSE text

trim(text) == trimEnd(trimStart(text))

\* text.split(/\s+/)[0]: the text up to its first white space (the whole text
\* when it holds none, the empty text when it starts with white space).
SplitFirst(text) ==
    IF \E i \in 1..Len(text) : IsSpace(text[i])
    THEN SubSeq(text, 1, (CHOOSE i \in 1..Len(text) :
                            /\ IsSpace(text[i])
                            /\ \A j \in 1..(i - 1) : ~IsSpace(text[j])) - 1)
    ELSE text

\* (mutant) the label is taken from the text as given, not from the trimmed text
OperationLabel_NoTrim(query) ==
    [i \in 1..Len(SplitFirst(query)) |-> toUpperCase(SplitFirst(query)[i])]

\* query.trim().split(/\s+/)[0].toUpperCase()
OperationLabel(query) ==
    [i \in 1..Len(SplitFirst(trim(query))) |->
        toUpperCase(SplitFirst(trim(query))[i])]

\* items.join(', ')
RECURSIVE JoinComma(_)
JoinComma(items) ==
    IF Len(items) = 0 THEN <<>>
    ELSE IF Len(items) = 1 THEN <<items[1]>>
    ELSE <<items[1], ",", " ">> \o JoinComma(Tail(items))

\* `$${index + 1}`
Placeholders == <<"$1", "$2", "$3", "$4">>
IsPlaceholder(tok) == \E i \in 1..Len(Placeholders) : Placeholders[i] = tok
PlaceholderIndex(tok) == CHOOSE i \in 1..Len(Placeholders) : Placeholders[i] = tok

\* Decimal text and the integer it denotes (parseInt, and PostgreSQL's input
\* of an integer); any other text denotes no integer.
IntTexts == <<"1", "2", "3", "4", "5", "6", "7", "8", "9">>
IsIntText(text) == text = "0" \/ \E i \in 1..Len(IntTexts) : IntTexts[i] = text
TextToInt(text) ==
    IF text = "0" THEN 0 ELSE CHOOSE i \in 1..Len(IntTexts) : IntTexts[i] = text

\* The target database: one table, orders(id serial primary key, customer
\* text, total text).  A value is its text; Null is the SQL null.
TargetTable == "orders"
TargetColumns == {"id", "customer", "total"}
Null == "<null>"

\* A statement as the driver receives it, and what executing it gives.
Failed(message, db) ==
    [ok |-> FALSE, rows |-> <<>>, db |-> db, error |-> message]
Done(rows, db) == [ok |-> TRUE, rows |-> rows, db |-> db, error |-> ""]

\* The significant lexemes of a statement, key words in upper case.
Tokens(text) == SelectSeq(text, LAMBDA lex : ~IsSpace(lex))
Keyword(tok) == toUpperCase(tok)

\* The position of the first token equal to `word` (0 when there is none).
IndexOf(toks, word) ==
    IF \E i \in 1..Len(toks) : Keyword(toks[i]) = word
    THEN CHOOSE i \in 1..Len(toks) :
            /\ Keyword(toks[i]) = word
            /\ \A j \in 1..(i - 1) : Keyword(toks[j]) # word
    ELSE 0

\* A quoted or numeric literal's value.
LiteralValue(tok) ==
    CASE tok = "'Alice'" -> "Alice"
      [] tok = "'Bob'" -> "Bob"
      [] tok = "'7'" -> "7"
      [] OTHER -> tok

\* Whether the value expression can be evaluated with the bound parameters,
\* and its value: a placeholder stands for the parameter of its number.
Bound(tok, params) == IsPlaceholder(tok) => PlaceholderIndex(tok) <= Len(params)
ValueOf(tok, params) ==
    IF IsPlaceholder(tok) THEN params[PlaceholderIndex(tok)] ELSE LiteralValue(tok)

\* LIMIT and OFFSET take an integer: a bound number, or a numeric literal.
IntOf(tok, params) ==
    IF IsPlaceholder(tok) THEN params[PlaceholderIndex(tok)] ELSE TextToInt(tok)

\* Every k-th token of toks from position `from`, `count` of them.
Every(toks, from, k, count) == [i \in 1..count |-> toks[from + k * (i - 1)]]

\* The stored value of a column: id is an integer column.
Stored(col, value) == IF col = "id" THEN TextToInt(value) ELSE value
Storable(col, value) == col = "id" => IsIntText(value)

\* WHERE col = value
Matches(row, col, value) ==
    IF col = "id" THEN IsIntText(value) /\ row.id = TextToInt(value)
    ELSE row[col] = value

\* All orders in which a SELECT without ORDER BY may return the rows.
RowOrders(rows) ==
    {s \in [1..Cardinality(rows) -> rows] :
        \A i, j \in 1..Cardinality(rows) : i # j => s[i] # s[j]}

\* SELECT COUNT(*) as total FROM t
PgCount(toks, db) ==
    IF toks[6] # TargetTable THEN {Failed("relation does not exist", db)}
    ELSE {Done(<<[total |-> IF db.rows = {} THEN "0"
                             ELSE IntTexts[Cardinality(db.rows)]]>>, db)}

\* SELECT * FROM t [LIMIT n OFFSET m]
PgSelect(toks, params, db) ==
    IF toks[4] # TargetTable THEN {Failed("relation does not exist", db)}
    ELSE IF Len(toks) = 4 THEN {Done(s, db) : s \in RowOrders(db.rows)}
    ELSE IF ~(Bound(toks[6], params) /\ Bound(toks[8], params))
    THEN {Failed("there is no parameter", db)}
    ELSE LET limit == IntOf(toks[6], params)
             offset == IntOf(toks[8], params)
         IN IF limit < 0 \/ offset < 0
            THEN {Failed("LIMIT and OFFSET must not be negative", db)}
            ELSE {Done(SubSeq(s, offset + 1,
                              IF offset + limit < Len(s) THEN offset + limit
                              ELSE Len(s)), db) : s \in RowOrders(db.rows)}

\* SELECT table_name FROM information_schema.tables WHERE table_schema =
\* 'public' AND table_type = 'BASE TABLE' ORDER BY table_name
PgTables(db) == {Done(<<[table_name |-> TargetTable]>>, db)}

\* The rows of information_schema.columns for the table, by ordinal position,
\* with the constraint type the statement's subquery finds for the column.
ColumnRows ==
    <<[column_name |-> "id", data_type |-> "integer", primary_key |-> "PRIMARY KEY"],
      [column_name |-> "customer", data_type |-> "text", primary_key |-> Null],
      [column_name |-> "total", data_type |-> "text", primary_key |-> Null]>>

\* SELECT column_name, ... FROM information_schema.columns c
\* WHERE table_name = v ORDER BY ordinal_position
PgColumns(toks, params, db) ==
    LET tok == toks[IndexOf(toks, "WHERE") + 3]
    IN IF ~Bound(tok, params) THEN {Failed("there is no parameter", db)}
       ELSE IF ValueOf(tok, params) = TargetTable THEN {Done(ColumnRows, db)}
       ELSE {Done(<<>>, db)}

\* INSERT INTO t (c1, ..) VALUES (v1, ..) [RETURNING *]
PgInsert(toks, params, db) ==
    LET close == IndexOf(toks, ")")
        n == (close - 4) \div 2
        cols == Every(toks, 5, 2, n)
        vals == Every(toks, close + 3, 2, n)
        tail == close + 2 + 2 * n
        wellFormed ==
            /\ Len(toks) >= 10
            /\ Keyword(toks[2]) = "INTO" /\ toks[4] = "("
            /\ close >= 6 /\ close % 2 = 0
            /\ \A i \in 1..(n - 1) : toks[4 + 2 * i] = ","
            /\ Len(toks) \in {tail, tail + 2}
            /\ Keyword(toks[close + 1]) = "VALUES" /\ toks[close + 2] = "("
            /\ \A i \in 1..(n - 1) : toks[close + 2 + 2 * i] = ","
            /\ toks[tail] = ")"
            /\ Len(toks) = tail + 2 =>
                 Keyword(toks[tail + 1]) = "RETURNING" /\ toks[tail + 2] = "*"
    IN IF ~wellFormed THEN {Failed("syntax error", db)}
       ELSE IF toks[3] # TargetTable THEN {Failed("relation does not exist", db)}
       ELSE IF \E i \in 1..n : cols[i] \notin TargetColumns
       THEN {Failed("column does not exist", db)}
       ELSE IF \E i \in 1..n : ~Bound(vals[i], params)
       THEN {Failed("there is no parameter", db)}
       ELSE IF \E i \in 1..n : ~Storable(cols[i], ValueOf(vals[i], params))
       THEN {Failed("invalid input syntax for type integer", db)}
       ELSE LET given(c) == \E i \in 1..n : cols[i] = c
                value(c) == ValueOf(vals[CHOOSE i \in 1..n : cols[i] = c], params)
                seq == IF given("id") THEN db.seq ELSE db.seq + 1
                row == [id |-> IF given("id") THEN TextToInt(value("id")) ELSE seq,
                        customer |-> IF given("customer") THEN value("customer")
                                     ELSE Null,
                        total |-> IF given("total") THEN value("total") ELSE Null]
            IN IF \E r \in db.rows : r.id = row.id
               THEN {Failed("duplicate key value violates unique constraint",
                            [db EXCEPT !.seq = seq])}
               ELSE {Done(IF Len(toks) = tail + 2 THEN <<row>> ELSE <<>>,
                          [rows |-> db.rows \cup {row}, seq |-> seq])}

\* UPDATE t SET c1 = v1, .. WHERE c = v [RETURNING *]
PgUpdate(toks, params, db) ==
    LET where == IndexOf(toks, "WHERE")
        n == (where - 3) \div 4
        cols == Every(toks, 4, 4, n)
        vals == Every(toks, 6, 4, n)
        wellFormed ==
            /\ Len(toks) >= 10
            /\ Keyword(toks[3]) = "SET"
            /\ where >= 7 /\ (where - 3) % 4 = 0
            /\ \A i \in 1..n : toks[1 + 4 * i] = "="
            /\ \A i \in 1..(n - 1) : toks[3 + 4 * i] = ","
            /\ Len(toks) \in {where + 3, where + 5}
            /\ toks[where + 2] = "="
            /\ Len(toks) = where + 5 =>
                 Keyword(toks[where + 4]) = "RETURNING" /\ toks[where + 5] = "*"
    IN IF ~wellFormed THEN {Failed("syntax error", db)}
       ELSE IF toks[2] # TargetTable THEN {Failed("relation does not exist", db)}
       ELSE IF \/ \E i \in 1..n : cols[i] \notin TargetColumns
               \/ toks[where + 1] \notin TargetColumns
       THEN {Failed("column does not exist", db)}
       ELSE IF \/ \E i \in 1..n : ~Bound(vals[i], params)
               \/ ~Bound(toks[where + 3], params)
       THEN {Failed("there is no parameter", db)}
       ELSE IF \/ \E i \in 1..n : ~Storable(cols[i], ValueOf(vals[i], params))
               \/ ~Storable(toks[where + 1], ValueOf(toks[where + 3], params))
       THEN {Failed("invalid input syntax for type integer", db)}
       ELSE LET hit(r) == Matches(r, toks[where + 1], ValueOf(toks[where + 3], params))
                given(c) == \E i \in 1..n : cols[i] = c
                value(c) == Stored(c, ValueOf(vals[CHOOSE i \in 1..n : cols[i] = c],
                                              params))
                new(r) == [id |-> IF given("id") THEN value("id") ELSE r.id,
                           customer |-> IF given("customer") THEN value("customer")
                                        ELSE r.customer,
                           total |-> IF given("total") THEN value("total")
                                     ELSE r.total]
                rows == {IF hit(r) THEN new(r) ELSE r : r \in db.rows}
                changed == {new(r) : r \in {x \in db.rows : hit(x)}}
            IN IF Cardinality({r.id : r \in rows}) # Cardinality(db.rows)
               THEN {Failed("duplicate key value violates unique constraint", db)}
               ELSE {Done(IF Len(toks) = where + 5 THEN s ELSE <<>>,
                          [db EXCEPT !.rows = rows]) : s \in RowOrders(changed)}

\* DELETE FROM t [WHERE c = v] [RETURNING c]
PgDelete(toks, params, db) ==
    LET where == IndexOf(toks, "WHERE")
        returning == IndexOf(toks, "RETURNING")
        body == IF where = 0 THEN 3 ELSE 7
        wellFormed ==
            /\ Len(toks) >= 3
            /\ Keyword(toks[2]) = "FROM"
            /\ where \in {0, 4}
            /\ where = 4 => Len(toks) >= 7 /\ toks[6] = "="
            /\ Len(toks) \in {body, body + 2}
            /\ Len(toks) = body + 2 => returning = body + 1
    IN IF ~wellFormed THEN {Failed("syntax error", db)}
       ELSE IF toks[3] # TargetTable THEN {Failed("relation does not exist", db)}
       ELSE IF \/ where = 4 /\ toks[5] \notin TargetColumns
               \/ Len(toks) = body + 2 /\ toks[body + 2] \notin TargetColumns
       THEN {Failed("column does not exist", db)}
       ELSE IF where = 4 /\ ~Bound(toks[7], params)
       THEN {Failed("there is no parameter", db)}
       ELSE IF where = 4 /\ ~Storable(toks[5], ValueOf(toks[7], params))
       THEN {Failed("invalid input syntax for type integer", db)}
       ELSE LET hit(r) == where = 4 => Matches(r, toks[5], ValueOf(toks[7], params))
                gone == {r \in db.rows : hit(r)}
            IN {Done(IF Len(toks) = body + 2
                     THEN [i \in 1..Len(s) |-> s[i][toks[body + 2]]] ELSE <<>>,
                     [db EXCEPT !.rows = db.rows \ gone]) : s \in RowOrders(gone)}

\* The largest placeholder number of the statement (0 when it has none).
MaxPlaceholder(toks) ==
    IF \E i \in 1..Len(toks) : IsPlaceholder(toks[i])
    THEN CHOOSE k \in 1..Len(Placeholders) :
            /\ \E i \in 1..Len(toks) : toks[i] = Placeholders[k]
            /\ \A i \in 1..Len(toks) :
                 IsPlaceholder(toks[i]) => PlaceholderIndex(toks[i]) <= k
    ELSE 0

\* PostgreSQL executing one statement in its own transaction: the outcomes it
\* may have.  A statement the database rejects leaves the table as it was.
PgExecute(stmt, db) ==
    LET toks == Tokens(stmt.sql)
        verb == IF toks = <<>> THEN "" ELSE Keyword(toks[1])
    IN IF Len(stmt.params) > 0 /\ Len(stmt.params) # MaxPlaceholder(toks)
       THEN {Failed("bind message supplies the wrong number of parameters", db)}
       ELSE IF verb = "SELECT" /\ IndexOf(toks, "INFORMATION_SCHEMA.TABLES") > 0
       THEN PgTables(db)
       ELSE IF verb = "SELECT" /\ IndexOf(toks, "INFORMATION_SCHEMA.COLUMNS") > 0
       THEN PgColumns(toks, stmt.params, db)
       ELSE IF verb = "SELECT" /\ Len(toks) = 6 /\ toks[2] = "COUNT(*)"
               /\ Keyword(toks[3]) = "AS" /\ Keyword(toks[5]) = "FROM"
       THEN PgCount(toks, db)
       ELSE IF verb = "SELECT" /\ Len(toks) \in {4, 8} /\ toks[2] = "*"
               /\ Keyword(toks[3]) = "FROM"
               /\ (Len(toks) = 8 => toks[5] = "LIMIT" /\ toks[7] = "OFFSET")
       THEN PgSelect(toks, stmt.params, db)
       ELSE IF verb = "INSERT" THEN PgInsert(toks, stmt.params, db)
       ELSE IF verb = "UPDATE" THEN PgUpdate(toks, stmt.params, db)
       ELSE IF verb = "DELETE" THEN PgDelete(toks, stmt.params, db)
       ELSE {Failed("syntax error", db)}

\* ----------------------------------------------------- Generic Row Accessor
\* (mutant) the statement carries the parameters it was given
SqlRaw_KeepsParams(query, params) == [sql |-> query, params |-> params]

\* sql.raw(query, params): drizzle's sql.raw takes the text alone and builds a
\* statement of that one chunk of text; the second argument is not part of it,
\* and the statement that reaches the driver carries no bound parameters.
SqlRaw(query, params) == [sql |-> query, params |-> <<>>]

\* activity_logs.connection_id references db_connections(id)
LogAccepted(conns, connectionId) == \E c \in conns : c.id = connectionId

\* The entry executeRawQuery writes for a statement that succeeded.
SuccessLog(connectionId, query) ==
    [connectionId |-> connectionId, operation |-> OperationLabel(query),
     details |-> query, status |-> "SUCCESS", metadata |-> Null]

\* (mutant) the entry of a failed statement carries no error message
ErrorLog_NoMetadata(connectionId, query, message) ==
    [connectionId |-> connectionId, operation |-> OperationLabel(query),
     details |-> query, status |-> "ERROR", metadata |-> Null]

\* The entry executeRawQuery writes for a statement that failed.
ErrorLog(connectionId, query, message) ==
    [connectionId |-> connectionId, operation |-> OperationLabel(query),
     details |-> query, status |-> "ERROR", metadata |-> message]

\* (mutant) the entry is written twice
createActivityLog_Twice(logs, entry) == Append(Append(logs, entry), entry)

\* createActivityLog: INSERT INTO activity_logs ... RETURNING *
createActivityLog(logs, entry) == Append(logs, entry)

\* (mutant) the entries are returned oldest first
getActivityLogs_OldestFirst(logs, connectionId, limit) ==
    LET mine == SelectSeq([i \in 1..Len(logs) |-> [at |-> i, entry |-> logs[i]]],
                          LAMBDA r : r.entry.connectionId = connectionId)
    IN SubSeq(mine, 1, IF limit < Len(mine) THEN limit ELSE Len(mine))

\* getActivityLogs: SELECT ... WHERE connection_id = :id ORDER BY created_at
\* DESC LIMIT :limit.  An entry is returned with its place in the order of
\* creation (`at`), which is the order of created_at.
getActivityLogs(logs, connectionId, limit) ==
    LET mine == SelectSeq([i \in 1..Len(logs) |-> [at |-> i, entry |-> logs[i]]],
                          LAMBDA r : r.entry.connectionId = connectionId)
        newestFirst == [k \in 1..Len(mine) |-> mine[Len(mine) + 1 - k]]
    IN SubSeq(newestFirst, 1, IF limit < Len(mine) THEN limit ELSE Len(mine))

ForeignKeyViolation == "insert on activity_logs violates foreign key constraint"

\* executeRawQuery: the outcomes of running the statement and logging it, each
\* with the target database and the activity log it leaves.  When the log
\* entry is refused, the SUCCESS entry's error is caught like a failure of the
\* statement, the ERROR entry is refused too, and that error is thrown.
\* (mutant) the outcome is handed on without an entry in the log
LogOutcome_Unlogged(o, connectionId, query, logs, conns) ==
    [ok |-> o.ok, rows |-> IF o.ok THEN o.rows ELSE <<>>,
     error |-> IF o.ok THEN "" ELSE o.error, db |-> o.db, logs |-> logs]

\* executeRawQuery after db.execute has settled with outcome o: the entry it
\* awaits next, and what it returns or throws.
LogOutcome(o, connectionId, query, logs, conns) ==
    IF ~LogAccepted(conns, connectionId)
    THEN [ok |-> FALSE, rows |-> <<>>, error |-> ForeignKeyViolation,
          db |-> o.db, logs |-> logs]
    ELSE IF o.ok
    THEN [ok |-> TRUE, rows |-> o.rows, error |-> "", db |-> o.db,
          logs |-> createActivityLog(logs, SuccessLog(connectionId, query))]
    ELSE [ok |-> FALSE, rows |-> <<>>, error |-> o.error, db |-> o.db,
          logs |-> createActivityLog(logs, ErrorLog(connectionId, query, o.error))]

executeRawQuery(connectionId, query, params, db, logs, conns) ==
    {LogOutcome(o, connectionId, query, logs, conns)
        : o \in PgExecute(SqlRaw(query, params), db)}

\* The statement of fetchDatabaseTables, as the template literal holds it.
TablesSql ==
    <<"\n", " ", "SELECT", " ", "table_name", " ", "\n", " ",
      "FROM", " ", "information_schema.tables", " ", "\n", " ",
      "WHERE", " ", "table_schema", " ", "=", " ", "'public'", " ", "\n", " ",
      "AND", " ", "table_type", " ", "=", " ", "'BASE TABLE'", "\n", " ",
      "ORDER", " ", "BY", " ", "table_name", "\n", " ">>

\* fetchDatabaseTables: result.rows.map(row => row.table_name)
fetchDatabaseTables(connectionId, db, logs, conns) ==
    {IF ~o.ok THEN o
     ELSE [o EXCEPT !.rows = [i \in 1..Len(o.rows) |-> o.rows[i].table_name]]
        : o \in executeRawQuery(connectionId, TablesSql, <<>>, db, logs, conns)}

\* The statement of fetchTableColumns; the subquery of its select list is one
\* lexeme here.
ColumnsSql ==
    <<"\n", " ", "SELECT", " ", "\n", " ", "column_name", ",", " ", "\n", " ",
      "data_type", ",", " ", "\n", " ", "is_nullable", ",", " ", "\n", " ",
      "column_default", ",", "\n", " ",
      "(constraint_type = 'PRIMARY KEY')", " ", "as", " ", "primary_key", "\n", " ",
      "FROM", " ", "information_schema.columns", " ", "c", "\n", " ",
      "WHERE", " ", "table_name", " ", "=", " ", "$1", "\n", " ",
      "ORDER", " ", "BY", " ", "ordinal_position", "\n", " ">>

\* fetchTableColumns
fetchTableColumns(connectionId, tableName, db, logs, conns) ==
    executeRawQuery(connectionId, ColumnsSql, <<tableName>>, db, logs, conns)

\* Object.keys(data) and Object.values(data): data is the sequence of the
\* record's column/value pairs.
Keys(data) == [i \in 1..Len(data) |-> data[i][1]]
Values(data) == [i \in 1..Len(data) |-> data[i][2]]

\* `INSERT INTO ${tableName} (${columns.join(', ')}) VALUES (${placeholders}) RETURNING *`
InsertSql(tableName, columns) ==
    <<"INSERT", " ", "INTO", " ", tableName, " ", "(">> \o JoinComma(columns)
        \o <<")", " ", "VALUES", " ", "(">>
        \o JoinComma([i \in 1..Len(columns) |-> Placeholders[i]])
        \o <<")", " ", "RETURNING", " ", "*">>

\* insertRow
insertRow(connectionId, tableName, data, db, logs, conns) ==
    executeRawQuery(connectionId, InsertSql(tableName, Keys(data)), Values(data),
                    db, logs, conns)

\* columns.map((col, index) => `${col} = $${index + 1}`).join(', ')
RECURSIVE SetClause(_, _)
SetClause(columns, index) ==
    IF index > Len(columns) THEN <<>>
    ELSE <<columns[index], " ", "=", " ", Placeholders[index]>>
            \o (IF index < Len(columns) THEN <<",", " ">> ELSE <<>>)
            \o SetClause(columns, index + 1)

\* `UPDATE ${tableName} SET ${setClause} WHERE ${primaryKey} = $${columns.length + 1} RETURNING *`
UpdateSql(tableName, columns, primaryKey) ==
    <<"UPDATE", " ", tableName, " ", "SET", " ">> \o SetClause(columns, 1)
        \o <<" ", "WHERE", " ", primaryKey, " ", "=", " ",
             Placeholders[Len(columns) + 1], " ", "RETURNING", " ", "*">>

\* updateRow: the primary-key column is left out of the SET list.
updateRow(connectionId, tableName, primaryKey, primaryKeyValue, data, db, logs, conns) ==
    LET pairs == SelectSeq(data, LAMBDA p : p[1] # primaryKey)
    IN executeRawQuery(connectionId, UpdateSql(tableName, Keys(pairs), primaryKey),
                       Values(pairs) \o <<primaryKeyValue>>, db, logs, conns)

\* `DELETE FROM ${tableName} WHERE ${primaryKey} = $1 RETURNING ${primaryKey}`
DeleteSql(tableName, primaryKey) ==
    <<"DELETE", " ", "FROM", " ", tableName, " ", "WHERE", " ", primaryKey, " ",
      "=", " ", "$1", " ", "RETURNING", " ", primaryKey>>

\* deleteRow
deleteRow(connectionId, tableName, primaryKey, primaryKeyValue, db, logs, conns) ==
    executeRawQuery(connectionId, DeleteSql(tableName, primaryKey),
                    <<primaryKeyValue>>, db, logs, conns)

\* `SELECT COUNT(*) as total FROM ${tableName}`
CountSql(tableName) ==
    <<"SELECT", " ", "COUNT(*)", " ", "as", " ", "total", " ", "FROM", " ", tableName>>

\* `SELECT * FROM ${tableName} LIMIT $1 OFFSET $2`
PageSql(tableName) ==
    <<"SELECT", " ", "*", " ", "FROM", " ", tableName, " ", "LIMIT", " ", "$1",
      " ", "OFFSET", " ", "$2">>

\* Math.ceil(total / pageSize); the quotient by zero is not a number the
\* response can carry, and is given as -1.
CeilDiv(total, pageSize) ==
    IF pageSize <= 0 THEN -1 ELSE (total + pageSize - 1) \div pageSize

\* fetchTableData: the count, then the page, each through executeRawQuery;
\* total is parseInt of the count's text.
fetchTableData(connectionId, tableName, page, pageSize, db, logs, conns) ==
    LET offset == (page - 1) * pageSize
        counts == executeRawQuery(connectionId, CountSql(tableName), <<>>,
                                  db, logs, conns)
        pages(c) == executeRawQuery(connectionId, PageSql(tableName),
                                    <<pageSize, offset>>, c.db, c.logs, conns)
    IN {[c EXCEPT !.rows = <<>>] : c \in {x \in counts : ~x.ok}}
       \cup UNION {{IF ~d.ok THEN d
                    ELSE [d EXCEPT !.rows =
                            [data |-> d.rows,
                             pagination |->
                                [total |-> TextToInt(c.rows[1].total), page |-> page,
                                 pageSize |-> pageSize,
                                 totalPages |-> CeilDiv(TextToInt(c.rows[1].total), pageSize)]]]
                        : d \in pages(c)} : c \in {x \in counts : x.ok}}

\* ------------------------------------------------------ row and query requests
\* connectionId of a request: connection 1 is registered, connection 2 is not.
RequestConnIds == {1, 2}
TableNames == {TargetTable, "ghost"}

\* Request bodies of the row endpoints: the record's column/value pairs.
RowData ==
    {<<>>,
     <<<<"total", "7">>>>,
     <<<<"customer", "Bob">>, <<"total", "7">>>>,
     <<<<"id", "2">>>>,
     <<<<"id", "2">>, <<"customer", "Alice">>>>}

\* :primaryKeyValue of the row endpoints, as the path carries it.
PrimaryKeyValues == {IntTexts[i] : i \in 1..MaxRowId}

\* ?page= and ?pageSize= of the data endpoint: absent, or the text given.
PageParams == {<<>>, <<"1">>, <<"2">>}
PageSizeParams == {<<>>, <<"1">>, <<"2">>}

\* req.query.x ? parseInt(req.query.x) : fallback
QueryInt(param, fallback) == IF param = <<>> THEN fallback ELSE TextToInt(param[1])

\* Bodies of POST /api/query.
SelectAllQuery ==
    [query |-> <<"\n", " ", "select", " ", "*", " ", "from", " ", TargetTable, "\n">>,
     params |-> <<>>]
InsertAliceQuery ==
    [query |-> <<"INSERT", " ", "INTO", " ", TargetTable, " ", "(", "customer", ")",
                 " ", "VALUES", " ", "(", "'Alice'", ")">>,
     params |-> <<>>]
UpdateTotalQuery ==
    [query |-> <<"update", " ", TargetTable, " ", "set", " ", "total", " ", "=", " ",
                 "'7'", " ", "where", " ", "id", " ", "=", " ", "1">>,
     params |-> <<>>]
DeleteAllQuery ==
    [query |-> <<"delete", " ", "from", " ", TargetTable>>, params |-> <<>>]
SelectGhostQuery ==
    [query |-> <<"SELECT", " ", "*", " ", "FROM", " ", "ghost">>, params |-> <<>>]
DeleteByParamQuery ==
    [query |-> <<"DELETE", " ", "FROM", " ", TargetTable, " ", "WHERE", " ", "id",
                 " ", "=", " ", "$1">>,
     params |-> <<"1">>]

RawQueries ==
    {SelectAllQuery, InsertAliceQuery, UpdateTotalQuery, DeleteAllQuery,
     SelectGhostQuery, DeleteByParamQuery}

\* Raw queries that fill, change and empty the target table.
SeedQueries == {InsertAliceQuery, UpdateTotalQuery, DeleteAllQuery}

\* What a request leaves behind: the target database and the activity log of
\* the outcome, within the bounds of the model.
Leaves(o) ==
    /\ o.db.seq <= MaxRowId
    /\ Len(o.logs) <= MaxLogs
    /\ targetDb' = o.db
    /\ activityLogs' = o.logs

\* ?limit= of the activity endpoint: absent, or the text given.
LimitParams == {<<>>, <<"0">>, <<"1">>, <<"2">>}

\* GET /api/connections/:connectionId/activity
GetActivityLogsReq(connectionId, limitParam) ==
    /\ last' = [op |-> "getActivityLogs", connectionId |-> connectionId,
                limitParam |-> limitParam, status |-> 200,
                body |-> getActivityLogs(activityLogs, connectionId,
                                         QueryInt(limitParam, DefaultLimit))]
    /\ UNCHANGED <<targetDb, activityLogs>>

\* POST /api/query
ExecuteRawQueryReq(connectionId, q) ==
    \E o \in executeRawQuery(connectionId, q.query, q.params,
                             targetDb, activityLogs, dbConnections) :
        /\ Leaves(o)
        /\ last' = [op |-> "executeRawQuery", connectionId |-> connectionId,
                    query |-> q.query, params |-> q.params,
                    status |-> IF o.ok THEN 200 ELSE 500,
                    body |-> IF o.ok THEN o.rows ELSE o.error]

\* GET /api/connections/:connectionId/tables
FetchDatabaseTablesReq(connectionId) ==
    \E o \in fetchDatabaseTables(connectionId, targetDb, activityLogs, dbConnections) :
        /\ Leaves(o)
        /\ last' = [op |-> "fetchDatabaseTables", connectionId |-> connectionId,
                    status |-> IF o.ok THEN 200 ELSE 500,
                    body |-> IF o.ok THEN o.rows ELSE o.error]

\* GET /api/connections/:connectionId/tables/:tableName/columns
FetchTableColumnsReq(connectionId, tableName) ==
    \E o \in fetchTableColumns(connectionId, tableName,
                                targetDb, activityLogs, dbConnections) :
        /\ Leaves(o)
        /\ last' = [op |-> "fetchTableColumns", connectionId |-> connectionId,
                    table |-> tableName,
                    status |-> IF o.ok THEN 200 ELSE 500,
                    body |-> IF o.ok THEN o.rows ELSE o.error]

\* POST /api/connections/:connectionId/tables/:tableName/rows
InsertRowReq(connectionId, tableName, data) ==
    \E o \in insertRow(connectionId, tableName, data,
                       targetDb, activityLogs, dbConnections) :
        /\ Leaves(o)
        /\ last' = [op |-> "insertRow", connectionId |-> connectionId,
                    table |-> tableName, data |-> data,
                    status |-> IF o.ok THEN 201 ELSE 500,
                    body |-> IF o.ok THEN o.rows[1] ELSE o.error]

\* PUT /api/connections/:connectionId/tables/:tableName/rows/:primaryKey/:primaryKeyValue
UpdateRowReq(connectionId, tableName, primaryKey, primaryKeyValue, data) ==
    \E o \in updateRow(connectionId, tableName, primaryKey, primaryKeyValue, data,
                       targetDb, activityLogs, dbConnections) :
        /\ Leaves(o)
        /\ last' = [op |-> "updateRow", connectionId |-> connectionId,
                    table |-> tableName, primaryKey |-> primaryKey,
                    primaryKeyValue |-> primaryKeyValue, data |-> data,
                    status |-> IF ~o.ok THEN 500
                               ELSE IF o.rows = <<>> THEN 404 ELSE 200,
                    body |-> IF ~o.ok THEN o.error
                             ELSE IF o.rows = <<>> THEN "Row not found"
                             ELSE o.rows[1]]

\* DELETE /api/connections/:connectionId/tables/:tableName/rows/:primaryKey/:primaryKeyValue
DeleteRowReq(connectionId, tableName, primaryKey, primaryKeyValue) ==
    \E o \in deleteRow(connectionId, tableName, primaryKey, primaryKeyValue,
                       targetDb, activityLogs, dbConnections) :
        /\ Leaves(o)
        /\ last' = [op |-> "deleteRow", connectionId |-> connectionId,
                    table |-> tableName, primaryKey |-> primaryKey,
                    primaryKeyValue |-> primaryKeyValue,
                    status |-> IF ~o.ok THEN 500
                               ELSE IF Len(o.rows) > 0 THEN 200 ELSE 404,
                    body |-> IF ~o.ok THEN o.error
                             ELSE IF Len(o.rows) > 0 THEN "success"
                             ELSE "Row not found"]

\* GET /api/connections/:connectionId/tables/:tableName/data
FetchTableDataReq(connectionId, tableName, pageParam, pageSizeParam) ==
    LET page == QueryInt(pageParam, DefaultPage)
        pageSize == QueryInt(pageSizeParam, DefaultPageSize)
    IN \E o \in fetchTableData(connectionId, tableName, page, pageSize,
                               targetDb, activityLogs, dbConnections) :
        /\ Leaves(o)
        /\ last' = [op |-> "fetchTableData", connectionId |-> connectionId,
                    table |-> tableName, pageParam |-> pageParam,
                    pageSizeParam |-> pageSizeParam,
                    status |-> IF o.ok THEN 200 ELSE 500,
                    body |-> IF o.ok THEN o.rows ELSE o.error]

\* ------------------------------------------------------------ specifications
RegistryEmpty == dbConnections = {} /\ connSeq = 0

MetadataEmpty ==
    /\ dbTables = {} /\ tableSeq = 0
    /\ dbColumns = {} /\ columnSeq = 0

SettingsEmpty ==
    /\ appSettings = {}
    /\ settingSeq = 0
    /\ lastSet = [k \in SettingKeys |-> <<>>]

TargetEmpty ==
    /\ targetDb = [rows |-> {}, seq |-> 0]
    /\ activityLogs = <<>>

\* Contents the target table may have when the server starts.
InitialTargets ==
    {[rows |-> {}, seq |-> 0],
     [rows |-> {[id |-> 1, customer |-> "Alice", total |-> Null]}, seq |-> 1],
     [rows |-> {[id |-> 1, customer |-> "Alice", total |-> "7"],
                [id |-> 2, customer |-> "Bob", total |-> Null]}, seq |-> 2]}

TargetSeeded ==
    /\ targetDb \in InitialTargets
    /\ activityLogs = <<>>

\* The registry after the setup wizard saved and activated a connection.
RegistrySetUp ==
    /\ dbConnections = {[id |-> 1, name |-> "n1", database |-> PoolDatabase,
                         isActive |-> TRUE]}
    /\ connSeq = 1

\* The Connection Registry, one request at a time.
InitRegistry == RegistryEmpty /\ MetadataEmpty /\ SettingsEmpty /\ TargetEmpty /\ last = NoRequest /\ NoCalls /\ RestInitial

NextRegistry ==
    \/ /\ \/ \E body \in ConnBodies : CreateConnectionReq(body)
          \/ \E id \in ConnIds, patch \in ConnPatches : UpdateConnectionReq(id, patch)
          \/ \E id \in ConnIds : ActivateConnectionReq(id)
          \/ GetActiveConnectionReq
       /\ UNCHANGED <<metaVars, settingVars, rowVars, callVars, restVars>>
    \/ /\ \E id \in ConnIds : DeleteConnectionReq(id)
       /\ UNCHANGED <<settingVars, targetDb, callVars, restVars>>

SpecRegistry == InitRegistry /\ [][NextRegistry]_vars

\* The Settings Store, one request at a time.
InitSettings == RegistryEmpty /\ MetadataEmpty /\ SettingsEmpty /\ TargetEmpty /\ last = NoRequest /\ NoCalls /\ RestInitial

NextSettings ==
    /\ \/ \E key \in SettingKeys, value \in JsonValues : SetSettingReq(key, value)
       \/ \E key \in SettingKeys : GetSettingReq(key)
    /\ UNCHANGED <<registryVars, metaVars, rowVars, callVars, restVars>>

SpecSettings == InitSettings /\ [][NextSettings]_vars

\* POST /api/query arrives.
QueryStart(call, connectionId, q) ==
    /\ queryCalls[call].pc = "idle"
    /\ queryCalls' = [queryCalls EXCEPT ![call] =
                        [pc |-> "start", op |-> "executeRawQuery",
                         connectionId |-> connectionId,
                         query |-> q.query, params |-> q.params]]
    /\ UNCHANGED <<targetDb, activityLogs>>

\* executeRawQuery's `await db.execute(...)` has settled: the statement ran on
\* the pool and, with no transaction open, its effect is committed.
QueryExecute(call) ==
    LET c == queryCalls[call]
    IN /\ c.pc = "start"
       /\ c.op = "executeRawQuery"
       /\ \E o \in PgExecute(SqlRaw(c.query, c.params), targetDb) :
            /\ o.db.seq <= MaxRowId
            /\ targetDb' = o.db
            /\ queryCalls' = [queryCalls EXCEPT ![call] =
                                [pc |-> "executed", op |-> c.op,
                                 connectionId |-> c.connectionId,
                                 query |-> c.query, params |-> c.params,
                                 outcome |-> [ok |-> o.ok,
                                              rows |-> IF o.ok THEN o.rows ELSE <<>>,
                                              error |-> IF o.ok THEN "" ELSE o.error]]]
       /\ UNCHANGED activityLogs

\* executeRawQuery's `await this.createActivityLog(...)` has settled, and the
\* endpoint answers.
QueryLog(call) ==
    LET c == queryCalls[call]
        o == LogOutcome([ok |-> c.outcome.ok, rows |-> c.outcome.rows,
                         error |-> c.outcome.error, db |-> targetDb],
                        c.connectionId, c.query, activityLogs, dbConnections)
    IN /\ c.pc = "executed"
       /\ Len(o.logs) <= MaxLogs
       /\ activityLogs' = o.logs
       /\ queryCalls' = [queryCalls EXCEPT ![call] =
                           [pc |-> "done", op |-> c.op,
                            connectionId |-> c.connectionId,
                            query |-> c.query, params |-> c.params,
                            outcome |-> c.outcome,
                            status |-> IF o.ok THEN 200 ELSE 500]]
       /\ UNCHANGED targetDb

\* The server process stops while requests are being handled (and is started
\* again): a handler that has not finished never runs its remaining steps.
\* What the database has committed stays.
Crash ==
    /\ \E call \in CallIds : queryCalls[call].pc \in {"start", "executed"}
    /\ queryCalls' = [call \in CallIds |->
                        IF queryCalls[call].pc \in {"start", "executed"}
                        THEN [queryCalls[call] EXCEPT
                                !.pc = IF @ = "start" THEN "lost"
                                       ELSE "lost after execute"]
                        ELSE queryCalls[call]]
    /\ UNCHANGED <<targetDb, activityLogs>>

\* Raw queries handled side by side on a server that may stop.
InitCrash ==
    /\ RegistrySetUp /\ MetadataEmpty /\ SettingsEmpty /\ TargetEmpty
    /\ last = NoRequest /\ NoCalls /\ RestInitial

NextCrash ==
    /\ \/ \E call \in CallIds, connectionId \in RequestConnIds, q \in RawQueries :
            QueryStart(call, connectionId, q)
       \/ \E call \in CallIds : QueryExecute(call)
       \/ \E call \in CallIds : QueryLog(call)
       \/ Crash
    /\ UNCHANGED <<registryVars, metaVars, settingVars, last,
                   activateCalls, setCalls, restVars>>

SpecCrash == InitCrash /\ [][NextCrash]_vars

\* GET /api/connections/:connectionId/tables/:tableName/data arrives.
FetchStart(call, connectionId, tableName, pageParam, pageSizeParam) ==
    /\ queryCalls[call].pc = "idle"
    /\ queryCalls' = [queryCalls EXCEPT ![call] =
                        [pc |-> "start", op |-> "fetchTableData",
                         connectionId |-> connectionId, table |-> tableName,
                         page |-> QueryInt(pageParam, DefaultPage),
                         pageSize |-> QueryInt(pageSizeParam, DefaultPageSize)]]
    /\ UNCHANGED <<targetDb, activityLogs>>

\* fetchTableData's first executeRawQuery has settled: the COUNT.  The call
\* keeps the total, and the table as the COUNT saw it.
FetchCount(call) ==
    LET c == queryCalls[call]
    IN /\ c.pc = "start"
       /\ c.op = "fetchTableData"
       /\ \E o \in executeRawQuery(c.connectionId, CountSql(c.table), <<>>,
                                    targetDb, activityLogs, dbConnections) :
            /\ Leaves(o)
            /\ queryCalls' = [queryCalls EXCEPT ![call] =
                                IF o.ok
                                THEN [pc |-> "counted", op |-> c.op,
                                      connectionId |-> c.connectionId,
                                      table |-> c.table, page |-> c.page,
                                      pageSize |-> c.pageSize,
                                      total |-> TextToInt(o.rows[1].total),
                                      counted |-> targetDb.rows]
                                ELSE [pc |-> "done", op |-> c.op,
                                      connectionId |-> c.connectionId,
                                      table |-> c.table, page |-> c.page,
                                      pageSize |-> c.pageSize,
                                      total |-> 0, counted |-> targetDb.rows,
                                      selected |-> targetDb.rows,
                                      status |-> 500, body |-> o.error]]

\* fetchTableData's second executeRawQuery has settled: the page.  The
\* endpoint answers; the call keeps the table as the SELECT saw it.
FetchSelect(call) ==
    LET c == queryCalls[call]
        offset == (c.page - 1) * c.pageSize
    IN /\ c.pc = "counted"
       /\ \E o \in executeRawQuery(c.connectionId, PageSql(c.table),
                                    <<c.pageSize, offset>>,
                                    targetDb, activityLogs, dbConnections) :
            /\ Leaves(o)
            /\ queryCalls' = [queryCalls EXCEPT ![call] =
                                [pc |-> "done", op |-> c.op,
                                 connectionId |-> c.connectionId,
                                 table |-> c.table, page |-> c.page,
                                 pageSize |-> c.pageSize,
                                 total |-> c.total, counted |-> c.counted,
                                 selected |-> targetDb.rows,
                                 status |-> IF o.ok THEN 200 ELSE 500,
                                 body |-> IF o.ok
                                          THEN [data |-> o.rows,
                                                pagination |->
                                                  [total |-> c.total, page |-> c.page,
                                                   pageSize |-> c.pageSize,
                                                   totalPages |->
                                                     CeilDiv(c.total, c.pageSize)]]
                                          ELSE o.error]]

\* Two fetches of pages of the target table handled side by side, while raw
\* queries insert into the table and empty it.
InitPageRace ==
    /\ RegistrySetUp /\ MetadataEmpty /\ SettingsEmpty /\ TargetSeeded
    /\ last = NoRequest /\ NoCalls /\ RestInitial

NextPageRace ==
    \/ /\ \/ \E call \in CallIds, pageParam \in {<<"1">>, <<"2">>} :
                FetchStart(call, 1, TargetTable, pageParam, <<"1">>)
          \/ \E call \in CallIds : FetchCount(call)
          \/ \E call \in CallIds : FetchSelect(call)
       /\ UNCHANGED <<registryVars, metaVars, settingVars, last,
                      activateCalls, setCalls, restVars>>
    \/ /\ \E connectionId \in RequestConnIds, q \in {InsertAliceQuery, DeleteAllQuery} :
            ExecuteRawQueryReq(connectionId, q)
       /\ UNCHANGED <<registryVars, metaVars, settingVars, callVars, restVars>>

SpecPageRace == InitPageRace /\ [][NextPageRace]_vars

\* The raw query endpoint, one request at a time.
InitQuery == RegistrySetUp /\ MetadataEmpty /\ SettingsEmpty /\ TargetSeeded /\ last = NoRequest /\ NoCalls /\ RestInitial

NextQuery ==
    /\ \E connectionId \in RequestConnIds, q \in RawQueries :
            ExecuteRawQueryReq(connectionId, q)
    /\ UNCHANGED <<registryVars, metaVars, settingVars, callVars, restVars>>

SpecQuery == InitQuery /\ [][NextQuery]_vars

\* The row endpoints of a registered connection, one request at a time; the
\* raw query endpoint fills the table.
InitRows == RegistrySetUp /\ MetadataEmpty /\ SettingsEmpty /\ TargetSeeded /\ last = NoRequest /\ NoCalls /\ RestInitial

NextRows ==
    /\ \/ \E q \in SeedQueries : ExecuteRawQueryReq(1, q)
       \/ \E data \in RowData : InsertRowReq(1, TargetTable, data)
       \/ \E primaryKeyValue \in PrimaryKeyValues, data \in RowData :
            UpdateRowReq(1, TargetTable, "id", primaryKeyValue, data)
       \/ \E primaryKeyValue \in PrimaryKeyValues :
            DeleteRowReq(1, TargetTable, "id", primaryKeyValue)
    /\ UNCHANGED <<registryVars, metaVars, settingVars, callVars, restVars>>

SpecRows == InitRows /\ [][NextRows]_vars

\* The data endpoint of a registered connection, one request at a time; the
\* raw query endpoint fills the table.
InitFetch == RegistrySetUp /\ MetadataEmpty /\ SettingsEmpty /\ TargetSeeded /\ last = NoRequest /\ NoCalls /\ RestInitial

NextFetch ==
    /\ \/ \E q \in SeedQueries : ExecuteRawQueryReq(1, q)
       \/ \E tableName \in TableNames,
             pageParam \in PageParams, pageSizeParam \in PageSizeParams :
            FetchTableDataReq(1, tableName, pageParam, pageSizeParam)
    /\ UNCHANGED <<registryVars, metaVars, settingVars, callVars, restVars>>

SpecFetch == InitFetch /\ [][NextFetch]_vars

\* Every endpoint that runs SQL through executeRawQuery, one request at a time,
\* for a registered and for an unknown connection id.
InitStorage == RegistrySetUp /\ MetadataEmpty /\ SettingsEmpty /\ TargetSeeded /\ last = NoRequest /\ NoCalls /\ RestInitial

NextStorage ==
    /\ \/ \E connectionId \in RequestConnIds, q \in {InsertAliceQuery, SelectGhostQuery} :
            ExecuteRawQueryReq(connectionId, q)
       \/ \E connectionId \in RequestConnIds : FetchDatabaseTablesReq(connectionId)
       \/ \E connectionId \in RequestConnIds, tableName \in TableNames :
            FetchTableColumnsReq(connectionId, tableName)
       \/ \E connectionId \in RequestConnIds, tableName \in TableNames :
            FetchTableDataReq(connectionId, tableName, <<>>, <<"2">>)
       \/ \E connectionId \in RequestConnIds :
            InsertRowReq(connectionId, TargetTable, <<<<"total", "7">>>>)
       \/ \E connectionId \in RequestConnIds :
            UpdateRowReq(connectionId, TargetTable, "id", "1", <<<<"total", "7">>>>)
       \/ \E connectionId \in RequestConnIds :
            DeleteRowReq(connectionId, TargetTable, "id", "1")
    /\ UNCHANGED <<registryVars, metaVars, settingVars, callVars, restVars>>

SpecStorage == InitStorage /\ [][NextStorage]_vars

\* The registry with a second connection, and the activity log after the
\* first n of a run of successful queries, every fourth of them on the
\* second connection.
RegistryOfTwo ==
    /\ dbConnections = {[id |-> 1, name |-> "n1", database |-> PoolDatabase,
                         isActive |-> TRUE],
                        [id |-> 2, name |-> "n2", database |-> "sales",
                         isActive |-> FALSE]}
    /\ connSeq = 2

LogOfQueries(n) ==
    [i \in 1..n |-> SuccessLog(IF i % 4 = 0 THEN 2 ELSE 1, SelectAllQuery.query)]

\* The activity endpoint next to the raw query endpoint, one request at a time.
InitActivity ==
    /\ RegistryOfTwo /\ MetadataEmpty /\ SettingsEmpty
    /\ targetDb \in InitialTargets
    /\ \E n \in 0..(DefaultLimit + 4) : activityLogs = LogOfQueries(n)
    /\ last = NoRequest /\ NoCalls /\ RestInitial

NextActivity ==
    /\ \/ \E connectionId \in ConnIds : ExecuteRawQueryReq(connectionId, SelectAllQuery)
       \/ \E connectionId \in ConnIds, limitParam \in LimitParams :
            GetActivityLogsReq(connectionId, limitParam)
    /\ UNCHANGED <<registryVars, metaVars, settingVars, callVars, restVars>>

SpecActivity == InitActivity /\ [][NextActivity]_vars

\* The raw query and row endpoints next to the activation of a connection,
\* one request at a time.
InitTarget ==
    /\ RegistryOfTwo /\ MetadataEmpty /\ SettingsEmpty /\ TargetSeeded
    /\ last = NoRequest /\ NoCalls /\ RestInitial

NextTarget ==
    \/ /\ \/ \E id \in ConnIds : ActivateConnectionReq(id)
          \/ GetActiveConnectionReq
       /\ UNCHANGED <<metaVars, settingVars, rowVars, callVars, restVars>>
    \/ /\ \/ \E connectionId \in ConnIds, q \in {SelectAllQuery, InsertAliceQuery} :
                ExecuteRawQueryReq(connectionId, q)
          \/ \E connectionId \in ConnIds : FetchDatabaseTablesReq(connectionId)
          \/ \E connectionId \in ConnIds :
                DeleteRowReq(connectionId, TargetTable, "id", "1")
       /\ UNCHANGED <<registryVars, metaVars, settingVars, callVars, restVars>>

SpecTarget == InitTarget /\ [][NextTarget]_vars

\* A body of POST /api/connections that names a new, inactive connection.
PlainConnBody ==
    [valid |-> TRUE, name |-> "n2", database |-> "sales", isActive |-> "absent"]

\* The activity log next to the requests that delete rows of the metadata
\* tables, one request at a time.
InitAudit == RegistrySetUp /\ MetadataEmpty /\ SettingsEmpty /\ TargetSeeded /\ last = NoRequest /\ NoCalls /\ RestInitial

NextAudit ==
    \/ /\ \E connectionId \in ConnIds, q \in {SelectAllQuery, SelectGhostQuery} :
            ExecuteRawQueryReq(connectionId, q)
       /\ UNCHANGED <<registryVars, metaVars, settingVars, callVars, restVars>>
    \/ /\ CreateConnectionReq(PlainConnBody)
       /\ UNCHANGED <<metaVars, settingVars, rowVars, callVars, restVars>>
    \/ /\ \E id \in ConnIds : DeleteConnectionReq(id)
       /\ UNCHANGED <<settingVars, targetDb, callVars, restVars>>
    \/ /\ \/ \E body \in TableBodies : CreateTableReq(body)
          \/ \E id \in TableIds : DeleteTableReq(id)
       /\ UNCHANGED <<registryVars, settingVars, rowVars, callVars, restVars>>

SpecAudit == InitAudit /\ [][NextAudit]_vars

\* The metadata of connections, tables and columns, one request at a time.
InitMetadata == RegistryEmpty /\ MetadataEmpty /\ SettingsEmpty /\ TargetEmpty /\ last = NoRequest /\ NoCalls /\ RestInitial

NextMetadata ==
    \/ /\ CreateConnectionReq(PlainConnBody)
       /\ UNCHANGED <<metaVars, settingVars, rowVars, callVars, restVars>>
    \/ /\ \E id \in ConnIds : DeleteConnectionReq(id)
       /\ UNCHANGED <<settingVars, targetDb, callVars, restVars>>
    \/ /\ \/ \E body \in TableBodies : CreateTableReq(body)
          \/ \E id \in TableIds, patch \in TablePatches : UpdateTableReq(id, patch)
          \/ \E id \in TableIds : DeleteTableReq(id)
          \/ \E body \in ColumnBodies : CreateColumnReq(body)
          \/ \E id \in ColumnIds, patch \in ColumnPatches : UpdateColumnReq(id, patch)
          \/ \E id \in ColumnIds : DeleteColumnReq(id)
       /\ UNCHANGED <<registryVars, settingVars, rowVars, callVars, restVars>>

SpecMetadata == InitMetadata /\ [][NextMetadata]_vars

\* Endpoints of every component, with requests that fail in each of the ways
\* an endpoint answers, one request at a time.
InitEndpoints ==
    /\ RegistrySetUp /\ MetadataEmpty /\ SettingsEmpty /\ TargetEmpty
    /\ last = NoRequest /\ NoCalls /\ RestInitial

NextEndpoints ==
    \/ /\ \E isConnected \in BOOLEAN : TestConnectionReq(isConnected)
       /\ UNCHANGED <<registryVars, metaVars, settingVars, rowVars, callVars, restVars>>
    \/ /\ \/ \E body \in {b \in ConnBodies : b = PlainConnBody \/ ~b.valid} :
                CreateConnectionReq(body)
          \/ \E id \in ConnIds : ActivateConnectionReq(id)
          \/ GetActiveConnectionReq
       /\ UNCHANGED <<metaVars, settingVars, rowVars, callVars, restVars>>
    \/ /\ \E id \in ConnIds : DeleteConnectionReq(id)
       /\ UNCHANGED <<settingVars, targetDb, callVars, restVars>>
    \/ /\ \/ \E body \in TableBodies : CreateTableReq(body)
          \/ \E id \in TableIds : DeleteTableReq(id)
       /\ UNCHANGED <<registryVars, settingVars, rowVars, callVars, restVars>>
    \/ /\ \/ SetSettingReq("theme", JNull)
          \/ GetSettingReq("theme")
       /\ UNCHANGED <<registryVars, metaVars, rowVars, callVars, restVars>>
    \/ /\ \/ ExecuteRawQueryReq(1, SelectGhostQuery)
          \/ \E connectionId \in RequestConnIds :
                UpdateRowReq(connectionId, TargetTable, "id", "1", <<<<"total", "7">>>>)
       /\ UNCHANGED <<registryVars, metaVars, settingVars, callVars, restVars>>

SpecEndpoints == InitEndpoints /\ [][NextEndpoints]_vars

\* Two activate requests handled side by side, next to get-active.
InitActivateRace ==
    /\ RegistryOfTwo /\ MetadataEmpty /\ SettingsEmpty /\ TargetEmpty
    /\ last = NoRequest /\ NoCalls /\ RestInitial

NextActivateRace ==
    \/ /\ \/ \E call \in CallIds, id \in ConnIds \cup {MaxConns + 1} :
                ActivateStart(call, id)
          \/ \E call \in CallIds : ActivateDeactivate(call)
          \/ \E call \in CallIds : ActivateFinish(call)
       /\ UNCHANGED <<metaVars, settingVars, rowVars, last, setCalls, queryCalls, restVars>>
    \/ /\ GetActiveConnectionReq
       /\ UNCHANGED <<metaVars, settingVars, rowVars, callVars, restVars>>

SpecActivateRace == InitActivateRace /\ [][NextActivateRace]_vars

\* The values two set requests carry.
RaceValues == {JStr("a"), JNum(1)}

\* The settings store with the key "theme" in it.
SettingsOfOne ==
    /\ appSettings = {[id |-> 1, key |-> "theme", value |-> JBool(TRUE)]}
    /\ settingSeq = 1
    /\ lastSet = [k \in SettingKeys |-> IF k = "theme" THEN <<JBool(TRUE)>> ELSE <<>>]

\* Two set requests handled side by side, next to get.
InitSetRace ==
    /\ RegistryEmpty /\ MetadataEmpty /\ TargetEmpty
    /\ SettingsEmpty \/ SettingsOfOne
    /\ last = NoRequest /\ NoCalls /\ RestInitial

NextSetRace ==
    \/ /\ \/ \E call \in CallIds, key \in SettingKeys, value \in RaceValues :
                SetStart(call, key, value)
          \/ \E call \in CallIds : SetLookup(call)
          \/ \E call \in CallIds : SetWrite(call)
       /\ UNCHANGED <<registryVars, metaVars, rowVars, last, activateCalls, queryCalls, restVars>>
    \/ /\ \E key \in SettingKeys : GetSettingReq(key)
       /\ UNCHANGED <<registryVars, metaVars, rowVars, callVars, restVars>>

SpecSetRace == InitSetRace /\ [][NextSetRace]_vars

\* The setup wizard's endpoints next to get-active, one request at a time.
InitSetup ==
    /\ RegistryEmpty /\ MetadataEmpty /\ SettingsEmpty /\ TargetEmpty
    /\ last = NoRequest /\ NoCalls /\ RestInitial

NextSetup ==
    \/ /\ \E body \in ConnBodies, storeSecurely \in BOOLEAN, setActive \in BOOLEAN,
             writable \in BOOLEAN :
            SaveConnectionReq(body, storeSecurely, setActive, writable)
       /\ UNCHANGED <<metaVars, settingVars, rowVars, callVars, migrationVars,
                      pageVars>>
    \/ /\ \E isConnected \in BOOLEAN : TestConnectionReq(isConnected)
       /\ UNCHANGED <<registryVars, metaVars, settingVars, rowVars, callVars, restVars>>
    \/ /\ GetActiveConnectionReq
       /\ UNCHANGED <<metaVars, settingVars, rowVars, callVars, restVars>>

SpecSetup == InitSetup /\ [][NextSetup]_vars

\* A migrations directory with its files, and a migrations table that
\* records none of them or the first one.
MigrationsSetUp ==
    /\ migrationsDir \in SUBSET FileIds
    /\ migrationSql \in [FileIds -> SqlKinds]
    /\ migrationRows \in {<<>>, <<1>>}
    /\ NoRuns

InitMigrate ==
    /\ RegistryEmpty /\ MetadataEmpty /\ SettingsEmpty /\ TargetEmpty
    /\ last = NoRequest /\ NoCalls /\ secretsFile = NoSecrets
    /\ MigrationsSetUp
    /\ PageNotMounted

\* No run is being handled.
NoRunInFlight == \A call \in CallIds : migrationCalls[call].pc \in {"idle", "done"}

\* POST /api/migrations/run, one request at a time.
NextMigrate ==
    /\ \/ \E call \in CallIds : NoRunInFlight /\ RunStart(call)
       \/ \E call \in CallIds : RunList(call)
       \/ \E call \in CallIds : RunExecute(call)
       \/ \E call \in CallIds : RunRecord(call)
    /\ UNCHANGED <<registryVars, metaVars, settingVars, rowVars, last, callVars,
                   fileVars, pageVars>>

SpecMigrate == InitMigrate /\ [][NextMigrate]_vars

\* POST /api/migrations/run handled side by side, on a server that may stop.
NextMigrateRace ==
    /\ \/ \E call \in CallIds : RunStart(call)
       \/ \E call \in CallIds : RunList(call)
       \/ \E call \in CallIds : RunExecute(call)
       \/ \E call \in CallIds : RunRecord(call)
       \/ RunCrash
    /\ UNCHANGED <<registryVars, metaVars, settingVars, rowVars, last, callVars,
                   fileVars, pageVars>>

SpecMigrateRace == InitMigrate /\ [][NextMigrateRace]_vars

\* The table-manager page in the browser, next to the registry's endpoints.
InitPage ==
    /\ RegistryOfTwo /\ MetadataEmpty /\ SettingsEmpty /\ TargetEmpty
    /\ last = NoRequest /\ NoCalls /\ RestInitial

NextPage ==
    \/ /\ ContextLoad
       /\ UNCHANGED <<metaVars, settingVars, rowVars, callVars, fileVars, migrationVars>>
    \/ /\ \/ \E names \in {<<>>, <<TargetTable>>, <<TargetTable, "ghost">>} :
                SidebarLoadTables(names)
          \/ \E table \in TableNames : SidebarSelect(table)
       /\ UNCHANGED <<registryVars, metaVars, settingVars, rowVars, last, callVars,
                      fileVars, migrationVars>>
    \/ /\ \E id \in ConnIds : ActivateConnectionReq(id)
       /\ UNCHANGED <<metaVars, settingVars, rowVars, callVars, restVars>>
    \/ /\ \E id \in ConnIds : DeleteConnectionReq(id)
       /\ UNCHANGED <<settingVars, targetDb, callVars, restVars>>

SpecPage == InitPage /\ [][NextPage]_vars

\* --------------------------------------------------------------------- claims
\* Structural equality of two JSON values: objects are equal when they hold
\* the same key/value pairs, in any order; every other value when it is the
\* same value.
StructEq(a, b) ==
    /\ a.t = b.t
    /\ IF a.t = "object"
       THEN {a.v[i] : i \in 1..Len(a.v)} = {b.v[i] : i \in 1..Len(b.v)}
       ELSE a.v = b.v

\* C1: after any sequence of completed create, update, delete and activate
\* requests, no two connections have isActive = true.
C1_NoTwoActive == Cardinality(ActiveConnections(dbConnections)) <= 1

\* C2: when activate(id) of an existing connection has completed and get-active
\* is the next request, get-active answers with exactly the connection of that
\* id, and every other connection is inactive.
C2_ActivateThenGetActive ==
    [][(/\ last.op = "activateConnection"
        /\ last.status = 200
        /\ last'.op = "getActiveConnection")
       => /\ last'.status = 200
          /\ last'.body.id = last.id
          /\ last'.body \in dbConnections'
          /\ \A c \in dbConnections' : c.id # last.id => ~c.isActive]_vars

\* C2 witness: activate has completed for an existing connection while another
\* connection is registered.
C2_Witness ==
    /\ last.op = "activateConnection"
    /\ last.status = 200
    /\ \E c \in dbConnections : c.id # last.id

OnTargetTable(request) ==
    /\ request.table = TargetTable
    /\ LogAccepted(dbConnections, request.connectionId)

\* The columns the record names exist, and one of them is not the primary key.
NamesColumns(data) ==
    /\ \A i \in 1..Len(data) : data[i][1] \in TargetColumns
    /\ \E i \in 1..Len(data) : data[i][1] # "id"

Supplied(data, col) == \E i \in 1..Len(data) : data[i][1] = col
SuppliedValue(data, col) == data[CHOOSE i \in 1..Len(data) : data[i][1] = col][2]

\* C3: insertRow(table, data) returns the stored row, and a following fetchPage
\* whose page contains that row returns it with every supplied column holding
\* the supplied value.
C3_InsertThenFetch ==
    (/\ last.op = "insertRow"
     /\ OnTargetTable(last)
     /\ NamesColumns(last.data)
     /\ ~Supplied(last.data, "id"))
    => /\ last.status = 201
       /\ \A i \in 1..Len(last.data) : last.body[last.data[i][1]] = last.data[i][2]
       /\ last.body \in targetDb.rows
       /\ \A o \in fetchTableData(last.connectionId, last.table, 1,
                                  Cardinality(targetDb.rows),
                                  targetDb, activityLogs, dbConnections) :
            o.ok /\ \E i \in 1..Len(o.rows.data) : o.rows.data[i] = last.body

\* The row of the target table whose primary key has the value of the text.
RowsWithKey(db, text) == {r \in db.rows : Matches(r, "id", text)}

\* C4: updateRow(table, pk, v, data) where no row has pk = v answers 404 (row
\* not found) and leaves every row of the table unchanged.
C4_UpdateMissingRow ==
    [][(/\ last'.op = "updateRow"
        /\ OnTargetTable(last')
        /\ NamesColumns(last'.data)
        /\ RowsWithKey(targetDb, last'.primaryKeyValue) = {})
       => /\ last'.status = 404
          /\ targetDb'.rows = targetDb.rows]_vars

\* The row with each non-primary-key column the record names set to the
\* record's value, and every other column as it was.
Merged(row, data) ==
    [id |-> row.id,
     customer |-> IF Supplied(data, "customer") THEN SuppliedValue(data, "customer")
                  ELSE row.customer,
     total |-> IF Supplied(data, "total") THEN SuppliedValue(data, "total")
               ELSE row.total]

\* C5: updateRow(table, pk, v, data) on an existing row returns that row with
\* each non-primary-key column of data set to the supplied value, every other
\* column unchanged, and the primary key still v although data names it.
C5_UpdateExistingRow ==
    [][(/\ last'.op = "updateRow"
        /\ OnTargetTable(last')
        /\ NamesColumns(last'.data)
        /\ RowsWithKey(targetDb, last'.primaryKeyValue) # {})
       => \E r \in RowsWithKey(targetDb, last'.primaryKeyValue) :
            /\ last'.status = 200
            /\ last'.body = Merged(r, last'.data)
            /\ targetDb'.rows = (targetDb.rows \ {r}) \cup {Merged(r, last'.data)}]_vars

\* C6: deleteRow(table, pk, v) returns true exactly when a row with pk = v
\* existed and was removed; on a value that is gone it returns false, which
\* is no error, and changes no row.
C6_DeleteRow ==
    [][(last'.op = "deleteRow" /\ OnTargetTable(last'))
       => IF RowsWithKey(targetDb, last'.primaryKeyValue) # {}
          THEN /\ last'.status = 200
               /\ targetDb'.rows =
                    targetDb.rows \ RowsWithKey(targetDb, last'.primaryKeyValue)
          ELSE /\ last'.status = 404
               /\ targetDb'.rows = targetDb.rows]_vars

\* C7: fetchPage(table, page = 1, pageSize = N), N >= 1, returns at most N rows
\* and a total equal to the number of rows of the table.
C7_FirstPage ==
    (/\ last.op = "fetchTableData"
     /\ OnTargetTable(last)
     /\ QueryInt(last.pageParam, DefaultPage) = 1
     /\ QueryInt(last.pageSizeParam, DefaultPageSize) >= 1)
    => /\ last.status = 200
       /\ Len(last.body.data) <= QueryInt(last.pageSizeParam, DefaultPageSize)
       /\ last.body.pagination.total = Cardinality(targetDb.rows)

\* C8: fetchPage returns a pagination descriptor that echoes the requested
\* page and pageSize (1 and 10 when the query does not give them) and whose
\* totalPages is ceil(total / pageSize).
C8_Pagination ==
    (/\ last.op = "fetchTableData"
     /\ OnTargetTable(last)
     /\ QueryInt(last.pageParam, 1) >= 1
     /\ QueryInt(last.pageSizeParam, 10) >= 1)
    => /\ last.status = 200
       /\ last.body.pagination.page =
            (IF last.pageParam = <<>> THEN 1 ELSE TextToInt(last.pageParam[1]))
       /\ last.body.pagination.pageSize =
            (IF last.pageSizeParam = <<>> THEN 10 ELSE TextToInt(last.pageSizeParam[1]))
       /\ LET p == last.body.pagination
          IN /\ p.totalPages * p.pageSize >= p.total
             /\ (p.totalPages - 1) * p.pageSize < p.total

\* The first white-space-delimited token of the text, in upper case: the
\* lexemes from the first one that is no white space up to the next white
\* space or the end of the text.
FirstTokenUpper(text) ==
    LET starts == {i \in 1..Len(text) : ~IsSpace(text[i])}
        first == CHOOSE i \in starts : \A j \in starts : i <= j
        ends == {j \in first..Len(text) : \A k \in first..j : ~IsSpace(text[k])}
        final == CHOOSE j \in ends : \A k \in ends : k <= j
    IN IF starts = {} THEN <<>>
       ELSE [i \in 1..(final - first + 1) |-> toUpperCase(text[first + i - 1])]

\* C10: a raw query that completes successfully appends exactly one entry to
\* the activity log, with status SUCCESS, the SQL text as details, and the
\* first white-space-delimited token of the SQL text, in upper case, as
\* operation.
C10_SuccessLogged ==
    [][(last'.op = "executeRawQuery" /\ last'.status = 200)
       => /\ Len(activityLogs') = Len(activityLogs) + 1
          /\ SubSeq(activityLogs', 1, Len(activityLogs)) = activityLogs
          /\ LET entry == activityLogs'[Len(activityLogs')]
             IN /\ entry.status = "SUCCESS"
                /\ entry.details = last'.query
                /\ entry.operation = FirstTokenUpper(last'.query)
                /\ entry.connectionId = last'.connectionId]_vars

\* C10 witness: a raw query in lower case, with white space before its first
\* token, has succeeded after an earlier request was logged.
C10_Witness ==
    /\ last.op = "executeRawQuery"
    /\ last.status = 200
    /\ IsSpace(last.query[1])
    /\ Len(activityLogs) = 2
    /\ activityLogs[2].operation = <<"SELECT">>

\* The database rejects the statement the raw query endpoint was given.
SqlFails(query, params, db) ==
    \A o \in PgExecute(SqlRaw(query, params), db) : ~o.ok

\* The step appended exactly one entry to the activity log.
AppendedOne ==
    /\ Len(activityLogs') = Len(activityLogs) + 1
    /\ SubSeq(activityLogs', 1, Len(activityLogs)) = activityLogs

StorageOps ==
    {"executeRawQuery", "fetchDatabaseTables", "fetchTableColumns",
     "fetchTableData", "insertRow", "updateRow", "deleteRow"}

\* The number of statements the request runs: fetchTableData runs its page
\* SELECT when its COUNT has succeeded; every other request runs one.
StatementsRun(request, db) ==
    IF request.op = "fetchTableData" /\ ~SqlFails(CountSql(request.table), <<>>, db)
    THEN 2 ELSE 1

\* The step appended one entry for each statement of the request: SUCCESS for
\* a statement before the last one, and for the last one the status that
\* matches the outcome of the request (ERROR when it answered 500).
OneEntryPerStatement ==
    LET n == StatementsRun(last', targetDb)
        before == Len(activityLogs)
    IN /\ Len(activityLogs') = before + n
       /\ SubSeq(activityLogs', 1, before) = activityLogs
       /\ \A i \in 1..(n - 1) : activityLogs'[before + i].status = "SUCCESS"
       /\ activityLogs'[before + n].status =
            (IF last'.status = 500 THEN "ERROR" ELSE "SUCCESS")
       /\ \A i \in 1..n :
            activityLogs'[before + i].connectionId = last'.connectionId

C13_AppendOnly ==
    [][\A i \in 1..Len(activityLogs) :
         /\ i <= Len(activityLogs')
         /\ activityLogs'[i] = activityLogs[i]]_vars

\* C18: every row of db_tables references a connection that exists and every
\* row of db_columns a table that exists, whatever metadata requests came
\* before: the deletion of a connection has removed its tables and their
\* columns.
C18_ReferencesExist ==
    /\ \A t \in dbTables : \E c \in dbConnections : c.id = t.connectionId
    /\ \A col \in dbColumns : \E t \in dbTables : t.id = col.tableId
    /\ (last.op = "deleteConnection" /\ last.status = 200)
        => /\ \A t \in dbTables : t.connectionId # last.id
           /\ \A col \in dbColumns : \A t \in dbTables :
                t.id = col.tableId => t.connectionId # last.id

\* C18 witness: the deletion of a connection has taken a table and the
\* table's column with it.
C18_Witness ==
    /\ last.op = "deleteConnection"
    /\ last.status = 200
    /\ last.cascaded.tables = 1
    /\ last.cascaded.columns = 1
    /\ dbTables = {}
    /\ dbColumns = {}

\* The places in the log of the entries of the connection.
EntriesOf(connectionId) ==
    {i \in 1..Len(activityLogs) : activityLogs[i].connectionId = connectionId}

\* C14: list(connectionId, limit) returns entries of that connection only, as
\* many as there are but no more than limit (10 when no limit is given), the
\* most recently created ones, newest first.
C14_ListNewestFirst ==
    (last.op = "getActivityLogs")
    => LET limit == IF last.limitParam = <<>> THEN 10
                    ELSE TextToInt(last.limitParam[1])
           mine == EntriesOf(last.connectionId)
           listed == {last.body[k].at : k \in 1..Len(last.body)}
       IN /\ last.status = 200
          /\ listed \subseteq mine
          /\ \A k \in 1..Len(last.body) :
                last.body[k].entry = activityLogs[last.body[k].at]
          /\ Len(last.body) =
                (IF Cardinality(mine) < limit THEN Cardinality(mine) ELSE limit)
          /\ \A k, l \in 1..Len(last.body) :
                k < l => last.body[k].at > last.body[l].at
          /\ \A i \in mine \ listed : \A j \in listed : j > i

\* C14 witness: list without a limit has returned ten entries of a connection
\* that has eleven, next to entries of another connection.
C14_Witness ==
    /\ last.op = "getActivityLogs"
    /\ last.limitParam = <<>>
    /\ Len(last.body) = 10
    /\ Cardinality(EntriesOf(last.connectionId)) = 11
    /\ Len(activityLogs) > 11

\* C15: a table or row operation or a raw query that has been carried out
\* was executed against the database of the active connection.  The
\* statements of every such request run on `db`, whose database is
\* PoolDatabase, so this asks that the active connection names that database.
C15_ActiveConnectionTarget ==
    [][(last'.op \in StorageOps /\ last'.status = 200)
       => \E c \in ActiveConnections(dbConnections) : c.database = PoolDatabase]_vars

\* The endpoints that parse the request body against a schema.
ValidatingOps == {"createConnection", "createTable", "createColumn"}

\* The row, setting or connection the request addresses is absent.
AddressedAbsent(request) ==
    CASE request.op \in {"updateConnection", "deleteConnection", "activateConnection"}
            -> ConnById(dbConnections, request.id) = {}
      [] request.op = "getActiveConnection" -> ActiveConnections(dbConnections) = {}
      [] request.op \in {"updateTable", "deleteTable"}
            -> ~\E t \in dbTables : t.id = request.id
      [] request.op \in {"updateColumn", "deleteColumn"}
            -> ~\E c \in dbColumns : c.id = request.id
      [] request.op = "getSetting" -> SettingByKey(appSettings, request.key) = {}
      [] request.op \in {"updateRow", "deleteRow"}
            -> RowsWithKey(targetDb, request.primaryKeyValue) = {}
      [] OTHER -> FALSE

\* A storage request that failed has run each of its statements once: its
\* entries in the log are no more than its statements.
RanOnce ==
    (last'.op \in StorageOps /\ last'.status = 500)
        => Len(activityLogs') - Len(activityLogs) <= StatementsRun(last', targetDb)

C19_RaceWindow ==
    LET active == ActiveConnections(dbConnections)
    IN /\ active = {}
            => \E call \in CallIds :
                 \/ activateCalls[call].pc = "between"
                 \/ activateCalls[call].pc = "done" /\ activateCalls[call].status = 404
       /\ Cardinality(active) >= 2
            => /\ \A call \in CallIds :
                    activateCalls[call].pc = "done" /\ activateCalls[call].status = 200
               /\ activateCalls["a"].id # activateCalls["b"].id
       /\ (last.op = "getActiveConnection" /\ last.status = 404)
            => \E call \in CallIds : activateCalls[call].pc \in {"between", "done"}

\* C19 witness: get-active has found no active connection between the two
\* writes of an activate request, and now that both activate requests have
\* completed two connections are active.
C19_Witness ==
    /\ \A call \in CallIds :
         activateCalls[call].pc = "done" /\ activateCalls[call].status = 200
    /\ Cardinality(ActiveConnections(dbConnections)) = 2
    /\ last.op = "getActiveConnection"
    /\ last.status = 404

\* C20: when two set requests for one key have run side by side and both are
\* done, both have succeeded, the key has exactly one row, and the row's
\* value is that of the write that happened last - whether the key was there
\* before or not.
C20_LastWriterWins ==
    (/\ \A call \in CallIds : setCalls[call].pc = "done"
     /\ setCalls["a"].key = setCalls["b"].key)
    => /\ \A call \in CallIds : setCalls[call].status = 200
       /\ Cardinality(SettingByKey(appSettings, setCalls["a"].key)) = 1
       /\ \A row \in SettingByKey(appSettings, setCalls["a"].key) :
            StructEq(row.value, lastSet[row.key][1])

\* C21: the statement the driver executes for a raw query carries the
\* caller's params bound to its placeholders: the request's outcome and the
\* table it leaves are those of running the SQL text with these params.
C21_ParamsReachDriver ==
    [][(/\ last'.op = "executeRawQuery"
        /\ LogAccepted(dbConnections, last'.connectionId))
       => \E o \in PgExecute([sql |-> last'.query, params |-> last'.params],
                              targetDb) :
            /\ targetDb' = o.db
            /\ (last'.status = 200) = o.ok]_vars

\* C24: activate(id) for an id that matches no connection answers 404 and
\* leaves the registry as it was: the connection that was active before is
\* still the active one.
C24_ActivateMissingKeepsActive ==
    [][(/\ last'.op = "activateConnection"
        /\ ConnById(dbConnections, last'.id) = {})
       => /\ last'.status = 404
          /\ dbConnections' = dbConnections
          /\ ActiveConnections(dbConnections') = ActiveConnections(dbConnections)]_vars

\* C25: when the raw query endpoint or a row endpoint answers with an error,
\* the statement of that call has not taken effect on the target table, and
\* an ERROR entry is appended only for a statement whose execution failed.
C25_ErrorMeansNoEffect ==
    [][(/\ last'.op \in {"executeRawQuery", "insertRow", "updateRow", "deleteRow"}
        /\ last'.status = 500)
       => /\ targetDb'.rows = targetDb.rows
          /\ \A i \in (Len(activityLogs) + 1)..Len(activityLogs') :
                activityLogs'[i].status = "ERROR"
                    => SqlFails(activityLogs'[i].details, <<>>, targetDb)]_vars

\* C26: updateRow with data that names no column other than the primary key
\* (empty data, or the primary-key column alone) modifies no row and answers
\* like any other update: the existing row when pk = v exists, 404 otherwise,
\* never an execution error.
C26_UpdateWithoutColumns ==
    [][(/\ last'.op = "updateRow"
        /\ OnTargetTable(last')
        /\ \A i \in 1..Len(last'.data) : last'.data[i][1] = last'.primaryKey)
       => /\ targetDb'.rows = targetDb.rows
          /\ IF RowsWithKey(targetDb, last'.primaryKeyValue) = {}
             THEN last'.status = 404
             ELSE /\ last'.status = 200
                  /\ last'.body \in RowsWithKey(targetDb, last'.primaryKeyValue)]_vars

\* C27: when POST /api/setup/save-connection answers with an error (400 or
\* 500), the request has persisted nothing: no connection row was created, no
\* connection's isActive changed, and the secrets file was not written.
C27_SaveErrorPersistsNothing ==
    [][(last'.op = "saveConnection" /\ last'.status \in {400, 500})
       => /\ dbConnections' = dbConnections
          /\ secretsFile' = secretsFile]_vars

\* The call took the given step of its handler.
Moved(call, from, to) ==
    queryCalls[call].pc = from /\ queryCalls'[call].pc = to

\* C22: the effect of a statement and its log entry are two steps.  The
\* target table changes only in the step that executes a statement, which
\* leaves the log alone; the log grows only in the later step of a request
\* that has executed, by one entry (always, when its connection is
\* registered); and a request the server lost when it stopped takes no
\* further step, so what it had executed stays without an entry.
C22_EffectThenLog ==
    [][/\ targetDb' # targetDb
            => /\ activityLogs' = activityLogs
               /\ \E call \in CallIds : Moved(call, "start", "executed")
       /\ activityLogs' # activityLogs
            => /\ targetDb' = targetDb
               /\ AppendedOne
               /\ \E call \in CallIds : Moved(call, "executed", "done")
       /\ \A call \in CallIds :
            /\ (/\ Moved(call, "executed", "done")
                /\ LogAccepted(dbConnections, queryCalls[call].connectionId))
                    => AppendedOne
            /\ queryCalls[call].pc \in {"lost", "lost after execute"}
                    => queryCalls'[call] = queryCalls[call]]_vars

\* C22 witness: the server stopped after an INSERT of a registered connection
\* had been executed and before its entry was written: the row is in the
\* table, the log is empty, and no request is left that could write to it.
C22_Witness ==
    /\ queryCalls["a"].pc = "lost after execute"
    /\ queryCalls["a"].query = InsertAliceQuery.query
    /\ queryCalls["a"].connectionId = 1
    /\ queryCalls["a"].outcome.ok
    /\ queryCalls["b"].pc = "done"
    /\ queryCalls["b"].connectionId = 2
    /\ targetDb.rows # {}
    /\ activityLogs = <<>>

\* C23: a fetchPage whose COUNT and SELECT were separated by another
\* request's insert or delete answers with a page of the table as the SELECT
\* found it and with the total the COUNT found, which is not the number of
\* rows of that table.
C23_PageAcrossWrite ==
    \A call \in CallIds :
        LET c == queryCalls[call]
        IN (/\ c.pc = "done"
            /\ c.op = "fetchTableData"
            /\ c.counted # c.selected)
           => /\ c.status = 200
              /\ c.body.pagination.total = Cardinality(c.counted)
              /\ \A i \in 1..Len(c.body.data) : c.body.data[i] \in c.selected

\* s is a prefix of t.
IsPrefix(s, t) == Len(s) <= Len(t) /\ SubSeq(t, 1, Len(s)) = s

\* C28: a run of runMigrations, with no other run beside it, applies exactly
\* the .sql files of the directory that are not recorded, in ascending order
\* of their names, and records each right after its SQL ran; it stops at the
\* first failure, and with every file recorded it applies nothing.
C28_RunAppliesPending ==
    \A call \in CallIds :
        LET c == migrationCalls[call]
        IN c.pc \in {"apply", "record", "done"}
           => /\ \A f \in FileIds :
                    (\E i \in 1..Len(c.listed) : c.listed[i] = f)
                        <=> (f \in c.dir /\ EndsWithSql(f) /\ f \notin c.seen)
              /\ \A i, j \in 1..Len(c.listed) : i < j => c.listed[i] < c.listed[j]
              /\ IsPrefix(c.ran, c.listed)
              /\ IsPrefix(c.recorded, c.ran)
              /\ Len(c.ran) = Len(c.recorded) + (IF c.pc = "record" THEN 1 ELSE 0)
              /\ c.todo = SubSeq(c.listed, Len(c.recorded) + 1, Len(c.listed))
              /\ \A i \in 1..Len(c.recorded) : c.recorded[i] \in Names(migrationRows)
              /\ (c.pc = "done" /\ c.status = 200) => c.ran = c.listed
              /\ (c.pc = "done" /\ c.status = 500)
                    => /\ Len(c.ran) < Len(c.listed)
                       /\ migrationSql[c.listed[Len(c.ran) + 1]] # "repeatable"
              /\ c.pc = "done" => c.status \in {200, 500}

\* C28 witness: a first run has applied and recorded both .sql files, in the
\* order of their names and leaving the other file of the directory alone,
\* and a second run, made when every file was recorded, has applied nothing.
C28_Witness ==
    /\ migrationCalls["a"].pc = "done"
    /\ migrationCalls["a"].ran = <<1, 2>>
    /\ migrationCalls["a"].dir = FileIds
    /\ migrationRows = <<1, 2>>
    /\ migrationCalls["b"].pc = "done"
    /\ migrationCalls["b"].status = 200
    /\ migrationCalls["b"].seen = {1, 2}
    /\ migrationCalls["b"].ran = <<>>
    /\ executed = [f \in FileIds |-> IF f = 3 THEN 0 ELSE 1]

\* C29: the SQL of a migration file is executed at most once over the life
\* of the database, also with two runs side by side and after a run that
\* stopped between a file's SQL and its record.
C29_ExecutedAtMostOnce == \A f \in FileIds : executed[f] <= 1

\* C30: after the user selects a table in the sidebar, the table manager's
\* selected table is that table, and its column and data queries are enabled.
C30_SelectionReachesManager ==
    [][(sidebarSelected' # <<>> /\ sidebarSelected' # sidebarSelected)
       => /\ managerSelected' = sidebarSelected'
          /\ {"columns", "data"} \subseteq managerQueries']_vars

====
